---- MODULE Spec2Model ----
(***************************************************************************)
(* Chord classification engine of the chord-analyzer service:              *)
(*   - ChordTemplates (models/audio/templates.py): the template library    *)
(*     and the weighted multi-metric matcher match_chord;                  *)
(*   - ChordRecognitionModel (src/chord_analyzer.py): onset segmentation   *)
(*     of a chroma matrix and the per-segment event builder.               *)
(*                                                                         *)
(* Numbers.  Chroma values are integers in units of 1/One (One is the      *)
(* value 1.0).  Scores of match_chord are fixed-point integers in units of *)
(* 1/SCALE; the Pearson correlation is rounded down to that resolution     *)
(* with an integer square root.  The 1e-8 added to the maximum before the  *)
(* division in match_chord is below that resolution: it is modelled by its *)
(* effect, a zero vector normalises to zero instead of dividing by zero.   *)
(* Comparisons of the segmenter and of the quality classifier are exact:   *)
(* they are decided by cross-multiplication, without square roots.         *)
(***************************************************************************)
EXTENDS Integers, Sequences, FiniteSets, TLC

VARIABLES
    templates,      \* ChordTemplates.TEMPLATES, in insertion order
    pc,             \* position of the caller
    chord_name,     \* get_template argument ("" when no template is looked up)
    chroma_vector,  \* match_chord argument: 12 chroma values
    threshold,      \* match_chord argument, in units of 1/SCALE
    match,          \* value returned by match_chord
    chroma_harmonic,\* chroma matrix of predict: a sequence of frames
    min_duration,   \* _segment_chord_regions argument, in tenths of a second
    segments,       \* value returned by _segment_chord_regions
    events,         \* chord_progression of predict, then its return value
    raised,         \* predict: an exception reached the except clause
    args,           \* arguments of the service or utility call under way
    result          \* what that call returned or raised

vars == <<templates, pc, chord_name, chroma_vector, threshold, match,
          chroma_harmonic, min_duration, segments, events, raised,
          args, result>>

(***************************************************************************)
(* Bounds of the model                                                     *)
(***************************************************************************)
\* resolution of the fixed-point scores: 1/SCALE
SCALE == 10000

\* most pitch classes sounding in a generated chroma vector
MaxNotes == 2

(***************************************************************************)
(* Chroma values                                                           *)
(***************************************************************************)
PitchClasses == 0..11

\* the chroma value 1.0
One == 10

\* the greatest chroma value that is not "present" in match_chord (0.1)
Lo == One \div 10

Levels == {0, Lo, One}

(***************************************************************************)
(* ChordTemplates.TEMPLATES                                                *)
(***************************************************************************)
TEMPLATES == <<
    [name |-> "C",       pattern |-> <<1, 0, 0, 0, 1, 0, 0, 1, 0, 0, 0, 0>>],
    [name |-> "C#",      pattern |-> <<0, 1, 0, 0, 0, 1, 0, 0, 1, 0, 0, 0>>],
    [name |-> "D",       pattern |-> <<0, 0, 1, 0, 0, 0, 1, 0, 0, 1, 0, 0>>],
    [name |-> "D#",      pattern |-> <<0, 0, 0, 1, 0, 0, 0, 1, 0, 0, 1, 0>>],
    [name |-> "E",       pattern |-> <<0, 0, 0, 0, 1, 0, 0, 0, 1, 0, 0, 1>>],
    [name |-> "F",       pattern |-> <<1, 0, 0, 0, 0, 1, 0, 0, 0, 1, 0, 0>>],
    [name |-> "F#",      pattern |-> <<0, 1, 0, 0, 0, 0, 1, 0, 0, 0, 1, 0>>],
    [name |-> "G",       pattern |-> <<0, 0, 1, 0, 0, 0, 0, 1, 0, 0, 0, 1>>],
    [name |-> "G#",      pattern |-> <<0, 0, 0, 1, 0, 0, 0, 0, 1, 0, 0, 0>>],
    [name |-> "A",       pattern |-> <<1, 0, 0, 0, 1, 0, 0, 0, 0, 1, 0, 0>>],
    [name |-> "A#",      pattern |-> <<0, 1, 0, 0, 0, 1, 0, 0, 0, 0, 1, 0>>],
    [name |-> "B",       pattern |-> <<0, 0, 1, 0, 0, 0, 1, 0, 0, 0, 0, 1>>],
    [name |-> "Cm",      pattern |-> <<1, 0, 0, 1, 0, 0, 0, 1, 0, 0, 0, 0>>],
    [name |-> "C#m",     pattern |-> <<0, 1, 0, 0, 1, 0, 0, 0, 1, 0, 0, 0>>],
    [name |-> "Dm",      pattern |-> <<0, 0, 1, 0, 0, 1, 0, 0, 0, 1, 0, 0>>],
    [name |-> "D#m",     pattern |-> <<0, 0, 0, 1, 0, 0, 1, 0, 0, 0, 1, 0>>],
    [name |-> "Em",      pattern |-> <<0, 0, 0, 0, 1, 0, 0, 1, 0, 0, 0, 1>>],
    [name |-> "Fm",      pattern |-> <<1, 0, 0, 0, 0, 1, 0, 0, 1, 0, 0, 0>>],
    [name |-> "F#m",     pattern |-> <<0, 1, 0, 0, 0, 0, 1, 0, 0, 1, 0, 0>>],
    [name |-> "Gm",      pattern |-> <<0, 0, 1, 0, 0, 0, 0, 1, 0, 0, 1, 0>>],
    [name |-> "G#m",     pattern |-> <<0, 0, 0, 1, 0, 0, 0, 0, 1, 0, 0, 1>>],
    [name |-> "Am",      pattern |-> <<1, 0, 0, 0, 1, 0, 0, 0, 0, 1, 0, 0>>],
    [name |-> "A#m",     pattern |-> <<0, 1, 0, 0, 0, 1, 0, 0, 0, 0, 1, 0>>],
    [name |-> "Bm",      pattern |-> <<0, 0, 1, 0, 0, 0, 1, 0, 0, 0, 0, 1>>],
    [name |-> "C7",      pattern |-> <<1, 0, 0, 0, 1, 0, 0, 1, 0, 0, 1, 0>>],
    [name |-> "C#7",     pattern |-> <<0, 1, 0, 0, 0, 1, 0, 0, 1, 0, 0, 1>>],
    [name |-> "D7",      pattern |-> <<0, 0, 1, 0, 0, 0, 1, 0, 0, 1, 0, 0>>],
    [name |-> "D#7",     pattern |-> <<0, 0, 0, 1, 0, 0, 0, 1, 0, 0, 1, 0>>],
    [name |-> "E7",      pattern |-> <<0, 0, 0, 0, 1, 0, 0, 0, 1, 0, 0, 1>>],
    [name |-> "F7",      pattern |-> <<1, 0, 0, 0, 0, 1, 0, 0, 0, 1, 0, 0>>],
    [name |-> "F#7",     pattern |-> <<0, 1, 0, 0, 0, 0, 1, 0, 0, 0, 1, 0>>],
    [name |-> "G7",      pattern |-> <<0, 0, 1, 0, 0, 0, 0, 1, 0, 0, 0, 1>>],
    [name |-> "G#7",     pattern |-> <<0, 0, 0, 1, 0, 0, 0, 0, 1, 0, 0, 0>>],
    [name |-> "A7",      pattern |-> <<1, 0, 0, 0, 1, 0, 0, 0, 0, 1, 0, 0>>],
    [name |-> "A#7",     pattern |-> <<0, 1, 0, 0, 0, 1, 0, 0, 0, 0, 1, 0>>],
    [name |-> "B7",      pattern |-> <<0, 0, 1, 0, 0, 0, 1, 0, 0, 0, 0, 1>>],
    [name |-> "Cmaj7",   pattern |-> <<1, 0, 0, 0, 1, 0, 0, 1, 0, 0, 0, 1>>],
    [name |-> "C#maj7",  pattern |-> <<0, 1, 0, 0, 0, 1, 0, 0, 1, 0, 0, 0>>],
    [name |-> "Dmaj7",   pattern |-> <<0, 0, 1, 0, 0, 0, 1, 0, 0, 1, 0, 0>>],
    [name |-> "D#maj7",  pattern |-> <<0, 0, 0, 1, 0, 0, 0, 1, 0, 0, 1, 0>>],
    [name |-> "Emaj7",   pattern |-> <<0, 0, 0, 0, 1, 0, 0, 0, 1, 0, 0, 1>>],
    [name |-> "Fmaj7",   pattern |-> <<1, 0, 0, 0, 0, 1, 0, 0, 0, 1, 0, 0>>],
    [name |-> "F#maj7",  pattern |-> <<0, 1, 0, 0, 0, 0, 1, 0, 0, 0, 1, 0>>],
    [name |-> "Gmaj7",   pattern |-> <<0, 0, 1, 0, 0, 0, 0, 1, 0, 0, 0, 1>>],
    [name |-> "G#maj7",  pattern |-> <<0, 0, 0, 1, 0, 0, 0, 0, 1, 0, 0, 0>>],
    [name |-> "Amaj7",   pattern |-> <<1, 0, 0, 0, 1, 0, 0, 0, 0, 1, 0, 0>>],
    [name |-> "A#maj7",  pattern |-> <<0, 1, 0, 0, 0, 1, 0, 0, 0, 0, 1, 0>>],
    [name |-> "Bmaj7",   pattern |-> <<0, 0, 1, 0, 0, 0, 1, 0, 0, 0, 0, 1>>],
    [name |-> "Cm7",     pattern |-> <<1, 0, 0, 1, 0, 0, 0, 1, 0, 0, 1, 0>>],
    [name |-> "C#m7",    pattern |-> <<0, 1, 0, 0, 1, 0, 0, 0, 1, 0, 0, 1>>],
    [name |-> "Dm7",     pattern |-> <<0, 0, 1, 0, 0, 1, 0, 0, 0, 1, 0, 0>>],
    [name |-> "D#m7",    pattern |-> <<0, 0, 0, 1, 0, 0, 1, 0, 0, 0, 1, 0>>],
    [name |-> "Em7",     pattern |-> <<0, 0, 0, 0, 1, 0, 0, 1, 0, 0, 0, 1>>],
    [name |-> "Fm7",     pattern |-> <<1, 0, 0, 0, 0, 1, 0, 0, 1, 0, 0, 0>>],
    [name |-> "F#m7",    pattern |-> <<0, 1, 0, 0, 0, 0, 1, 0, 0, 1, 0, 0>>],
    [name |-> "Gm7",     pattern |-> <<0, 0, 1, 0, 0, 0, 0, 1, 0, 0, 1, 0>>],
    [name |-> "G#m7",    pattern |-> <<0, 0, 0, 1, 0, 0, 0, 0, 1, 0, 0, 1>>],
    [name |-> "Am7",     pattern |-> <<1, 0, 0, 0, 1, 0, 0, 0, 0, 1, 0, 0>>],
    [name |-> "A#m7",    pattern |-> <<0, 1, 0, 0, 0, 1, 0, 0, 0, 0, 1, 0>>],
    [name |-> "Bm7",     pattern |-> <<0, 0, 1, 0, 0, 0, 1, 0, 0, 0, 0, 1>>],
    [name |-> "Bb7#11",  pattern |-> <<1, 0, 0, 1, 0, 1, 1, 0, 0, 0, 1, 0>>],
    [name |-> "Bb6",     pattern |-> <<1, 0, 1, 0, 0, 0, 0, 1, 0, 0, 1, 0>>],
    [name |-> "Bb6/Ab",  pattern |-> <<1, 0, 1, 0, 0, 0, 0, 0, 1, 0, 1, 0>>],
    [name |-> "Bb7",     pattern |-> <<1, 0, 0, 1, 0, 0, 1, 0, 0, 0, 1, 0>>],
    [name |-> "Bb",      pattern |-> <<1, 0, 0, 1, 0, 0, 1, 0, 0, 0, 0, 0>>],
    [name |-> "Bb9",     pattern |-> <<1, 0, 0, 1, 0, 0, 1, 0, 0, 0, 1, 1>>]
>>

\* ChordTemplates.get_all_chord_names: the names in insertion order
get_all_chord_names == [i \in 1..Len(templates) |-> templates[i].name]

\* a lookup that answers an absent name with an empty pattern (dict.get)
GetOrEmpty(name) ==
    IF \E i \in 1..Len(templates) : templates[i].name = name
    THEN templates[CHOOSE i \in 1..Len(templates) : templates[i].name = name].pattern
    ELSE <<>>

\* ChordTemplates.get_template: the pattern stored under name,
\* <<"KeyError">> when the name is absent
get_template(name) ==
    IF \E i \in 1..Len(templates) : templates[i].name = name
    THEN templates[CHOOSE i \in 1..Len(templates) : templates[i].name = name].pattern
    ELSE <<"KeyError">>

(***************************************************************************)
(* numpy on 12-element vectors                                             *)
(***************************************************************************)
\* np.sum
Sum12(x) ==
    x[1] + x[2] + x[3] + x[4] + x[5] + x[6] +
    x[7] + x[8] + x[9] + x[10] + x[11] + x[12]

\* np.dot
Dot12(x, y) ==
    x[1]*y[1] + x[2]*y[2] + x[3]*y[3] + x[4]*y[4] + x[5]*y[5] + x[6]*y[6] +
    x[7]*y[7] + x[8]*y[8] + x[9]*y[9] + x[10]*y[10] + x[11]*y[11] + x[12]*y[12]

\* np.max
RECURSIVE MaxFrom(_, _, _)
MaxFrom(x, i, m) ==
    IF i > Len(x) THEN m
    ELSE MaxFrom(x, i + 1, IF x[i] > m THEN x[i] ELSE m)

Max12(x) == MaxFrom(x, 2, x[1])

\* floor of the square root of n, 0 < n < 2^31 (Newton's iteration from above)
RECURSIVE SqrtFrom(_, _)
SqrtFrom(n, x) ==
    LET y == (x + n \div x) \div 2
    IN  IF y >= x THEN x ELSE SqrtFrom(n, y)

ISqrt(n) == SqrtFrom(n, 46340)

\* a power of two f with 2^29 <= d*f*f < 2^31 (keeps the root precise)
RECURSIVE Widen(_, _)
Widen(d, f) ==
    IF d * f * f <= 8388607 THEN Widen(d, 16 * f)
    ELSE IF d * f * f <= 536870911 THEN Widen(d, 2 * f)
    ELSE f

\* np.corrcoef(x, y)[0, 1] in units of 1/SCALE; nan when x or y is constant
corrcoef(x, y) ==
    LET sx == Sum12(x)
        sy == Sum12(y)
        n  == 12 * Dot12(x, y) - sx * sy
        dx == 12 * Dot12(x, x) - sx * sx
        dy == 12 * Dot12(y, y) - sy * sy
        d  == dx * dy
    IN  IF d = 0
        THEN [nan |-> TRUE, value |-> 0]
        ELSE LET f == Widen(d, 1)
             IN  [nan |-> FALSE, value |-> (n * f * SCALE) \div ISqrt(d * f * f)]

(***************************************************************************)
(* ChordTemplates.match_chord                                              *)
(***************************************************************************)
\* Method 1: correlation, nan replaced by 0.0
correlation(chroma, template) ==
    LET c == corrcoef(chroma, template)
    IN  IF c.nan THEN 0 ELSE c.value

\* Method 2: dot product of chroma / (max + 1e-8) with the raw template
dot_product(chroma, template) ==
    IF Max12(chroma) = 0 THEN 0
    ELSE (SCALE * Dot12(chroma, template)) \div Max12(chroma)

\* Method 3: share of the template notes that are present (> 0.1) in chroma
Present(c) == IF 10 * c > One THEN 1 ELSE 0

Flag(t) == IF t > 0 THEN 1 ELSE 0

presence_score(chroma, template) ==
    (SCALE * Dot12([i \in 1..12 |-> Flag(template[i])],
                   [i \in 1..12 |-> Present(chroma[i])]))
        \div Sum12([i \in 1..12 |-> Flag(template[i])])

\* 0.4 * correlation + 0.4 * dot_product + 0.2 * presence_score
base_score(chroma, template) ==
    (4 * correlation(chroma, template) + 4 * dot_product(chroma, template)
        + 2 * presence_score(chroma, template)) \div 10

\* np.sum(template) * 0.01
complexity_bonus(template) == (Sum12(template) * SCALE) \div 100

combined_score(chroma, template) ==
    base_score(chroma, template) + complexity_bonus(template)

\* (a matcher in which an equal score also replaces the best one)
ReplacesOnTie(score, best_score) == score >= best_score

\* the test of line 164: does the score replace the best one so far
Replaces(score, best_score) == score > best_score

\* lines 141-162 for every template: the combined scores in insertion order
combined_scores(chroma) ==
    [i \in 1..Len(templates) |-> combined_score(chroma, templates[i].pattern)]

\* lines 164-166 for the i-th template on: keep the best chord and score
RECURSIVE MatchLoop(_, _, _, _)
MatchLoop(scores, i, best_chord, best_score) ==
    IF i > Len(scores) THEN [chord |-> best_chord, score |-> best_score]
    ELSE IF Replaces(scores[i], best_score)
         THEN MatchLoop(scores, i + 1, templates[i].name, scores[i])
         ELSE MatchLoop(scores, i + 1, best_chord, best_score)

\* (a matcher that reports 0 with "Unknown")
GateZeroed(best, thr) ==
    IF best.score >= thr
    THEN best
    ELSE [chord |-> "Unknown", score |-> 0]

\* the value returned after the loop (lines 169-172)
Gate(best, thr) ==
    IF best.score >= thr
    THEN best
    ELSE [chord |-> "Unknown", score |-> best.score]

match_chord(chroma, thr) ==
    Gate(MatchLoop(combined_scores(chroma), 1, "Unknown", 0), thr)

(***************************************************************************)
(* Callers of match_chord                                                  *)
(***************************************************************************)
\* 0.3, the default threshold of match_chord
DefaultThreshold == (3 * SCALE) \div 10

Thresholds == {0, DefaultThreshold, (3 * SCALE) \div 2, 3 * SCALE}

\* a template pattern as a chroma vector (flag 1 is the value 1.0)
AsChroma(pattern) == [i \in 1..12 |-> One * pattern[i]]

\* the pitch classes of P sound, those of Q weakly
ChromaOf(P, Q) ==
    [i \in 1..12 |-> IF (i - 1) \in Q THEN Lo
                     ELSE IF (i - 1) \in P THEN One ELSE 0]

NoteSets == {P \in SUBSET PitchClasses : Cardinality(P) <= MaxNotes}

ChromaInputs ==
    UNION {{ChromaOf(P, Q) : Q \in SUBSET P} : P \in NoteSets}
    \cup {AsChroma(TEMPLATES[i].pattern) : i \in 1..Len(TEMPLATES)}

NoMatch == [chord |-> "none", score |-> 0]

ZeroChroma == [i \in 1..12 |-> 0]

\* names a caller looks up: every name of the library and one that is absent
LookupNames == {TEMPLATES[i].name : i \in 1..Len(TEMPLATES)} \cup {"H"}

InitMatch ==
    /\ templates = TEMPLATES
    /\ \/ /\ pc = "call"
          /\ chord_name = ""
          /\ chroma_vector \in ChromaInputs
       \/ /\ pc = "lookup"
          /\ chord_name \in LookupNames
          /\ chroma_vector = ZeroChroma
    /\ threshold \in Thresholds
    /\ match = NoMatch
    /\ chroma_harmonic = <<>>
    /\ min_duration = 0
    /\ segments = <<>>
    /\ events = <<>>
    /\ raised = FALSE
    /\ args = <<>>
    /\ result = <<>>

\* the caller fetches the template of chord_name to match it
GetTemplate ==
    /\ pc = "lookup"
    /\ IF get_template(chord_name) = <<"KeyError">>
       THEN /\ pc' = "raised"
            /\ UNCHANGED chroma_vector
       ELSE /\ pc' = "call"
            /\ chroma_vector' = AsChroma(get_template(chord_name))
    /\ UNCHANGED <<templates, chord_name, threshold, match,
                   chroma_harmonic, min_duration, segments, events, raised,
                   args, result>>

MatchChord ==
    /\ pc = "call"
    /\ match' = match_chord(chroma_vector, threshold)
    /\ pc' = "done"
    /\ UNCHANGED <<templates, chord_name, chroma_vector, threshold,
                   chroma_harmonic, min_duration, segments, events, raised,
                   args, result>>

NextMatch == GetTemplate \/ MatchChord

SpecMatch == InitMatch /\ [][NextMatch]_vars

(***************************************************************************)
(* ChordRecognitionModel (src/chord_analyzer.py)                           *)
(***************************************************************************)
\* self.sample_rate
sample_rate == 22050

\* self.hop_length
hop_length == 512

\* the default of min_duration, 0.5 s, in tenths of a second
DefaultMinDuration == 5

Abs(v) == IF v < 0 THEN 0 - v ELSE v

\* np.sum(np.abs(a - b))
L1(a, b) == Sum12([i \in 1..12 |-> Abs(a[i] - b[i])])

\* np.sum(np.abs(np.diff(chroma, axis=1)), axis=0): one entry per pair of
\* consecutive frames; entry j of numpy (from 0) is entry j + 1 here
chroma_diff(frames) ==
    [t \in 1..(Len(frames) - 1) |-> L1(frames[t + 1], frames[t])]

RECURSIVE SumSeq(_, _)
SumSeq(s, i) == IF i > Len(s) THEN 0 ELSE s[i] + SumSeq(s, i + 1)

\* (an onset test that also fires at the threshold itself)
ReachesThreshold(d, n, s1, s2) ==
    /\ n * d - s1 >= 0
    /\ (n * d - s1) * (n * d - s1) >= n * s2 - s1 * s1

\* d > np.mean(diff) + np.std(diff) for n values of sum s1 and sum of
\* squares s2:  d > s1/n + sqrt(n*s2 - s1^2)/n, decided without the root
ExceedsThreshold(d, n, s1, s2) ==
    /\ n * d - s1 > 0
    /\ (n * d - s1) * (n * d - s1) > n * s2 - s1 * s1

\* np.where(chroma_diff > onset_threshold)[0], as numpy indices from 0
RECURSIVE OnsetsFrom(_, _, _, _)
OnsetsFrom(diff, t, s1, s2) ==
    IF t > Len(diff) THEN <<>>
    ELSE IF ExceedsThreshold(diff[t], Len(diff), s1, s2)
         THEN <<t - 1>> \o OnsetsFrom(diff, t + 1, s1, s2)
         ELSE OnsetsFrom(diff, t + 1, s1, s2)

Onsets(diff) ==
    CHOOSE o \in {OnsetsFrom(diff, 1, s[1], s[2]) :
                    s \in {<<SumSeq(diff, 1),
                             SumSeq([t \in 1..Len(diff) |-> diff[t] * diff[t]], 1)>>}} :
        TRUE

\* (a segmenter that accepts every length)
AnyLength(n, md) == TRUE

\* n >= min_duration * self.sample_rate / self.hop_length
MeetsMinimum(n, md) == n * hop_length * 10 >= md * sample_rate

\* (a walk that moves prev_onset only when a segment is emitted)
AdvanceWhenEmitted(prev_onset, onset, md) ==
    IF onset - prev_onset >= 0
          /\ (onset - prev_onset) * hop_length * 10 >= md * sample_rate
    THEN onset ELSE prev_onset

\* line 103: prev_onset after an onset was visited
Advance(prev_onset, onset, md) == onset

\* the loop of lines 99-103, from the i-th onset on
RECURSIVE SegmentLoop(_, _, _, _, _)
SegmentLoop(onsets, i, prev_onset, segs, md) ==
    IF i > Len(onsets) THEN [prev_onset |-> prev_onset, segments |-> segs]
    ELSE SegmentLoop(onsets, i + 1, Advance(prev_onset, onsets[i], md),
                     IF MeetsMinimum(onsets[i] - prev_onset, md)
                     THEN Append(segs, <<prev_onset, onsets[i]>>)
                     ELSE segs,
                     md)

\* line 107: the final segment
FinalSegment(prev_onset, n_frames) == <<prev_onset, n_frames>>

_segment_chord_regions(frames, md) ==
    CHOOSE r \in
        {IF MeetsMinimum(Len(frames) - w.prev_onset, md)
         THEN Append(w.segments, FinalSegment(w.prev_onset, Len(frames)))
         ELSE w.segments :
            w \in {SegmentLoop(Onsets(chroma_diff(frames)), 1, 0, <<>>, md)}} :
        TRUE

\* np.mean(segment_chroma, axis=1) times the number of frames: the mean of
\* pitch class i is ChromaSums(...)[i + 1] / Len(segment_chroma)
ChromaSums(segment_chroma) ==
    [i \in 1..12 |->
        SumSeq([t \in 1..Len(segment_chroma) |-> segment_chroma[t][i]], 1)]

\* top_indices[np.argmax(top_values)]: np.argsort does not fix the order of
\* equal values, so any pitch class of greatest mean can come out as root
RootIndices(sums) ==
    {r \in PitchClasses : \A j \in 1..12 : sums[j] <= sums[r + 1]}

\* the k greatest values of s (top_values for k = 4)
RECURSIVE Greatest(_, _)
Greatest(s, k) ==
    IF k = 0 \/ Len(s) = 0 THEN <<>>
    ELSE LET m == CHOOSE i \in 1..Len(s) : \A j \in 1..Len(s) : s[j] <= s[i]
         IN  <<s[m]>> \o Greatest(SubSeq(s, 1, m - 1) \o SubSeq(s, m + 1, Len(s)),
                                  k - 1)

\* np.roll(chroma, root_idx): the rotation in the other direction
RollRight(x, root_idx) == [i \in 1..12 |-> x[((i - 1 - root_idx + 12) % 12) + 1]]

\* np.roll(chroma, -root_idx)
Roll(x, root_idx) == [i \in 1..12 |-> x[((i - 1 + root_idx) % 12) + 1]]

RECURSIVE Gcd(_, _)
Gcd(a, b) == IF b = 0 THEN a ELSE Gcd(b, a % b)

\* x divided by the greatest common divisor of its entries (the Pearson
\* correlation does not depend on the scale of x)
Reduced(x) ==
    LET g == Gcd(Gcd(Gcd(Gcd(Gcd(x[1], x[2]), Gcd(x[3], x[4])),
                         Gcd(Gcd(x[5], x[6]), Gcd(x[7], x[8]))),
                     Gcd(x[9], x[10])), Gcd(x[11], x[12]))
    IN  IF g = 0 THEN x ELSE [i \in 1..12 |-> x[i] \div g]

\* chord_templates of _classify_chord_quality, in declaration order
chord_templates == <<
    [quality |-> "major",      template |-> <<1, 0, 0, 0, 1, 0, 0, 1, 0, 0, 0, 0>>],
    [quality |-> "minor",      template |-> <<1, 0, 0, 1, 0, 0, 0, 1, 0, 0, 0, 0>>],
    [quality |-> "dominant7",  template |-> <<1, 0, 0, 0, 1, 0, 0, 1, 0, 0, 1, 0>>],
    [quality |-> "major7",     template |-> <<1, 0, 0, 0, 1, 0, 0, 1, 0, 0, 0, 1>>],
    [quality |-> "minor7",     template |-> <<1, 0, 0, 1, 0, 0, 0, 1, 0, 0, 1, 0>>],
    [quality |-> "diminished", template |-> <<1, 0, 0, 1, 0, 0, 1, 0, 0, 0, 0, 0>>],
    [quality |-> "augmented",  template |-> <<1, 0, 0, 0, 1, 0, 0, 0, 1, 0, 0, 0>>]
>>

\* np.corrcoef(rotated_chroma, template / np.sum(template))[0, 1], nan
\* replaced by 0, as the pair (n, d) that stands for n / sqrt(d * dx) with
\* dx the same for all templates; 0 is (0, 1)
QualityScore(x, t) ==
    IF 12 * Dot12(x, x) - Sum12(x) * Sum12(x) = 0
    THEN [n |-> 0, d |-> 1]
    ELSE [n |-> 12 * Dot12(x, t) - Sum12(x) * Sum12(t),
          d |-> 12 * Dot12(t, t) - Sum12(t) * Sum12(t)]

\* line 179: score > best_score
ScoreGreater(a, b) ==
    IF a.n > 0
    THEN b.n <= 0 \/ a.n * a.n * b.d > b.n * b.n * a.d
    ELSE b.n < 0 /\ a.n * a.n * b.d < b.n * b.n * a.d

\* the loop of lines 168-181, from the i-th quality on
RECURSIVE ClassifyLoop(_, _, _, _)
ClassifyLoop(scores, i, best_match, best_score) ==
    IF i > Len(scores) THEN best_match
    ELSE IF ScoreGreater(scores[i], best_score)
         THEN ClassifyLoop(scores, i + 1, chord_templates[i].quality, scores[i])
         ELSE ClassifyLoop(scores, i + 1, best_match, best_score)

\* strings that are taken apart or put together are sequences of characters
pitch_names == << <<"C">>, <<"C", "#">>, <<"D">>, <<"D", "#">>, <<"E">>, <<"F">>,
                  <<"F", "#">>, <<"G">>, <<"G", "#">>, <<"A">>, <<"A", "#">>, <<"B">> >>

\* lines 187-199: what the quality appends to the root
Suffix(quality) ==
    CASE quality = "minor"      -> <<"m">>
      [] quality = "dominant7"  -> <<"7">>
      [] quality = "major7"     -> <<"m", "a", "j", "7">>
      [] quality = "minor7"     -> <<"m", "7">>
      [] quality = "diminished" -> <<"d", "i", "m">>
      [] quality = "augmented"  -> <<"a", "u", "g">>
      [] OTHER                  -> <<>>

\* extensions detected above 0.5 instead of 0.3
HalfThreshold(rotated, n) ==
    (IF 2 * rotated[3] > n * One THEN <<"9">> ELSE <<>>)
    \o (IF 2 * rotated[6] > n * One THEN <<"11">> ELSE <<>>)
    \o (IF 2 * rotated[10] > n * One THEN <<"13">> ELSE <<>>)

\* _detect_extensions on rotated sums of n frames: mean > 0.3
_detect_extensions(rotated, n) ==
    (IF 10 * rotated[3] > 3 * n * One THEN <<"9">> ELSE <<>>)
    \o (IF 10 * rotated[6] > 3 * n * One THEN <<"11">> ELSE <<>>)
    \o (IF 10 * rotated[10] > 3 * n * One THEN <<"13">> ELSE <<>>)

\* _classify_chord_quality on the sums of n frames
_classify_chord_quality(sums, n, root_idx) ==
    CHOOSE r \in
        {[symbol |-> pitch_names[root_idx + 1] \o Suffix(q),
          quality |-> q,
          extensions |-> _detect_extensions(Roll(sums, root_idx), n)] :
            q \in {ClassifyLoop(
                     [i \in 1..Len(chord_templates) |->
                        QualityScore(Reduced(Roll(sums, root_idx)),
                                     chord_templates[i].template)],
                     1, "major", [n |-> 0, d |-> 1])}} :
        TRUE

\* _calculate_confidence on top_values (sums of the frames), in units of
\* 1/SCALE; the 1e-6 of both quotients only keeps 0/0 at 0
_calculate_confidence(top_values) ==
    CHOOSE c \in
        {(IF cd[1] + cd[2] >= 2 * SCALE THEN SCALE ELSE (cd[1] + cd[2]) \div 2) :
            cd \in {LET mx == top_values[1]
                        s  == SumSeq(top_values, 1)
                        k  == Len(top_values)
                        v  == k * SumSeq([i \in 1..k |-> top_values[i] * top_values[i]], 1)
                                 - s * s
                    IN  <<IF s = 0 THEN 0 ELSE (SCALE * mx) \div s,
                          IF v = 0 THEN 0
                          ELSE ((k * mx - s) * Widen(v, 1) * SCALE)
                                   \div ISqrt(v * Widen(v, 1) * Widen(v, 1))>>}} :
        TRUE

\* lines 128-146 of _analyze_chord_segment for one root; times are in
\* samples (frame * hop_length), i.e. in units of 1/sample_rate seconds
ChordEvent(sums, n, start_frame, end_frame, root_idx) ==
    CHOOSE e \in
        {[symbol |-> chord_info.symbol,
          start_time |-> start_frame * hop_length,
          end_time |-> end_frame * hop_length,
          confidence |-> _calculate_confidence(Greatest(sums, 4)),
          root |-> pitch_names[root_idx + 1],
          quality |-> chord_info.quality,
          extensions |-> chord_info.extensions] :
            chord_info \in {_classify_chord_quality(sums, n, root_idx)}} :
        TRUE

\* _analyze_chord_segment: the events it can return
_analyze_chord_segment(segment_chroma, start_frame, end_frame) ==
    UNION {
        {ChordEvent(sums, Len(segment_chroma), start_frame, end_frame, root_idx) :
            root_idx \in RootIndices(sums)} :
        sums \in {ChromaSums(segment_chroma)}}

(***************************************************************************)
(* predict, from the chroma matrix on                                      *)
(***************************************************************************)
\* most blocks of constant chroma in a generated matrix
MaxBlocks == 3

\* frames per block: one frame, and the lengths around the minimum duration
BlockLengths == {1, 22, 23}

PatternOf(name) ==
    TEMPLATES[CHOOSE i \in 1..Len(TEMPLATES) : TEMPLATES[i].name = name].pattern

\* the chroma of a block
BlockPatterns == {AsChroma(PatternOf(name)) : name \in {"C", "Am", "G"}}

\* the frames of a sequence of blocks
RECURSIVE Frames(_)
Frames(blocks) ==
    IF blocks = <<>> THEN <<>>
    ELSE [t \in 1..Head(blocks)[2] |-> Head(blocks)[1]] \o Frames(Tail(blocks))

ChromaMatrices ==
    UNION {{Frames(b) : b \in [1..n -> BlockPatterns \X BlockLengths]} :
              n \in 0..MaxBlocks}

InitPredict ==
    /\ templates = TEMPLATES
    /\ pc = "load"
    /\ chord_name = ""
    /\ chroma_vector = ZeroChroma
    /\ threshold = DefaultThreshold
    /\ match = NoMatch
    /\ chroma_harmonic \in ChromaMatrices
    /\ min_duration = DefaultMinDuration
    /\ segments = <<>>
    /\ events = <<>>
    /\ raised = FALSE
    /\ args = <<>>
    /\ result = <<>>

\* _get_mock_chord_progression; times in samples, confidence in 1/SCALE
_get_mock_chord_progression ==
    << [symbol |-> <<"C", "m", "a", "j", "7">>,
        start_time |-> 0, end_time |-> 2 * sample_rate,
        confidence |-> (87 * SCALE) \div 100, root |-> <<"C">>,
        quality |-> "major7", extensions |-> <<"7">>],
       [symbol |-> <<"A", "m", "7">>,
        start_time |-> 2 * sample_rate, end_time |-> 4 * sample_rate,
        confidence |-> (82 * SCALE) \div 100, root |-> <<"A">>,
        quality |-> "minor7", extensions |-> <<"7">>],
       [symbol |-> <<"D", "m", "7">>,
        start_time |-> 4 * sample_rate, end_time |-> 6 * sample_rate,
        confidence |-> (85 * SCALE) \div 100, root |-> <<"D">>,
        quality |-> "minor7", extensions |-> <<"7">>],
       [symbol |-> <<"G", "7">>,
        start_time |-> 6 * sample_rate, end_time |-> 8 * sample_rate,
        confidence |-> (89 * SCALE) \div 100, root |-> <<"G">>,
        quality |-> "dominant7", extensions |-> <<"7">>] >>

\* an except clause that returns what was computed before the exception
ReturnsPartial(chord_progression) == chord_progression

\* lines 81-84: the value predict returns from its except clause
OnException(chord_progression) == _get_mock_chord_progression

\* line 40: librosa.load returns the samples or raises (missing or
\* undecodable file)
LoadAudio ==
    /\ pc = "load"
    /\ \/ pc' = "features" /\ UNCHANGED raised
       \/ pc' = "except" /\ raised' = TRUE
    /\ UNCHANGED <<templates, chord_name, chroma_vector, threshold, match,
                   chroma_harmonic, min_duration, segments, events,
                   args, result>>

\* lines 42-65: slicing, chroma_stft and hpss yield chroma_harmonic or raise
\* (a signal librosa rejects)
ExtractChroma ==
    /\ pc = "features"
    /\ \/ pc' = "segment" /\ UNCHANGED raised
       \/ pc' = "except" /\ raised' = TRUE
    /\ UNCHANGED <<templates, chord_name, chroma_vector, threshold, match,
                   chroma_harmonic, min_duration, segments, events,
                   args, result>>

\* lines 81-84
ExceptClause ==
    /\ pc = "except"
    /\ events' = OnException(events)
    /\ pc' = "returned"
    /\ UNCHANGED <<templates, chord_name, chroma_vector, threshold, match,
                   chroma_harmonic, min_duration, segments, raised,
                   args, result>>

\* line 68
SegmentChordRegions ==
    /\ pc = "segment"
    /\ segments' = _segment_chord_regions(chroma_harmonic, min_duration)
    /\ pc' = IF segments' = <<>> THEN "return" ELSE "analyze"
    /\ UNCHANGED <<templates, chord_name, chroma_vector, threshold, match,
                   chroma_harmonic, min_duration, events, raised,
                   args, result>>

\* lines 72-77: one iteration of the loop over chord_segments
AnalyzeChordSegment ==
    /\ pc = "analyze"
    /\ \E chord_info \in
            _analyze_chord_segment(
                SubSeq(chroma_harmonic, segments[Len(events) + 1][1] + 1,
                       segments[Len(events) + 1][2]),
                segments[Len(events) + 1][1], segments[Len(events) + 1][2]) :
          events' = Append(events, chord_info)
    /\ pc' = IF Len(events') = Len(segments) THEN "return" ELSE "analyze"
    /\ UNCHANGED <<templates, chord_name, chroma_vector, threshold, match,
                   chroma_harmonic, min_duration, segments, raised,
                   args, result>>

\* line 79
ReturnProgression ==
    /\ pc = "return"
    /\ pc' = "returned"
    /\ UNCHANGED <<templates, chord_name, chroma_vector, threshold, match,
                   chroma_harmonic, min_duration, segments, events, raised,
                   args, result>>

NextPredict ==
    \/ LoadAudio
    \/ ExtractChroma
    \/ SegmentChordRegions
    \/ AnalyzeChordSegment
    \/ ReturnProgression
    \/ ExceptClause

SpecPredict == InitPredict /\ [][NextPredict]_vars

(***************************************************************************)
(* ChordAnalysisService.detect_key (services/chord_analysis_service.py).   *)
(* Chord symbols and key labels are sequences of one-character strings.    *)
(***************************************************************************)
\* most entries of a generated chords_data list
MaxChords == 3

\* sub occurs in s at position i
OccursAt(s, sub, i) ==
    /\ i + Len(sub) - 1 <= Len(s)
    /\ \A k \in 1..Len(sub) : s[i + k - 1] = sub[k]

\* str.find + 1: position of the first occurrence of sub in s, 0 if none
RECURSIVE FindFrom(_, _, _)
FindFrom(s, sub, i) ==
    IF i + Len(sub) - 1 > Len(s) THEN 0
    ELSE IF OccursAt(s, sub, i) THEN i
    ELSE FindFrom(s, sub, i + 1)

\* sub in s
Contains(s, sub) == FindFrom(s, sub, 1) # 0

\* s.split(sep)[0]
SplitFirst(s, sep) ==
    IF FindFrom(s, sep, 1) = 0 THEN s
    ELSE SubSeq(s, 1, FindFrom(s, sep, 1) - 1)

\* chord_counts after the loop of lines 115-118: the keys in insertion order
\* with their counts.  An entry of kind "object" has no get method and
\* raises; an absent or empty chord is skipped.
RECURSIVE CountLoop(_, _, _)
CountLoop(chords_data, i, chord_counts) ==
    IF i > Len(chords_data) THEN [exc |-> "", counts |-> chord_counts]
    ELSE IF chords_data[i].kind = "object"
         THEN [exc |-> "AttributeError", counts |-> chord_counts]
    ELSE IF chords_data[i].kind = "str" /\ chords_data[i].chord = <<>>
         THEN CountLoop(chords_data, i + 1, chord_counts)
    ELSE IF \E k \in 1..Len(chord_counts) :
                chord_counts[k].key = chords_data[i]
         THEN CountLoop(chords_data, i + 1,
                  [k \in 1..Len(chord_counts) |->
                      IF chord_counts[k].key = chords_data[i]
                      THEN [key |-> chord_counts[k].key,
                            n |-> chord_counts[k].n + 1]
                      ELSE chord_counts[k]])
    ELSE CountLoop(chords_data, i + 1,
                  Append(chord_counts, [key |-> chords_data[i], n |-> 1]))

\* max(chord_counts, key=chord_counts.get): the first key of greatest count
RECURSIVE MaxKey(_, _, _)
MaxKey(chord_counts, i, best) ==
    IF i > Len(chord_counts) THEN chord_counts[best].key
    ELSE MaxKey(chord_counts, i + 1,
                IF chord_counts[i].n > chord_counts[best].n THEN i ELSE best)

Unknown == <<"U", "n", "k", "n", "o", "w", "n">>

\* lines 127-135 for a string most_common_chord
KeyLabel(most_common_chord) ==
    IF Contains(most_common_chord, <<"m", "a", "j">>)
          \/ Contains(most_common_chord, <<"7">>)
    THEN SplitFirst(SplitFirst(SplitFirst(most_common_chord, <<"m", "a", "j">>),
                               <<"7">>), <<"m">>)
            \o <<" ", "M", "a", "j", "o", "r">>
    ELSE IF Contains(most_common_chord, <<"m">>)
            /\ ~Contains(most_common_chord, <<"m", "a", "j">>)
    THEN SplitFirst(most_common_chord, <<"m">>)
            \o <<" ", "M", "i", "n", "o", "r">>
    ELSE most_common_chord
            \o <<" ", "(", "U", "n", "k", "n", "o", "w", "n", ")">>

\* the try block of detect_key, lines 111-135: the value returned or the
\* exception raised; the in test on a chord that is not a string raises
DetectKeyBody(chords_data) ==
    IF chords_data = <<>> THEN [exc |-> "", value |-> Unknown]
    ELSE LET c == CountLoop(chords_data, 1, <<>>)
         IN  IF c.exc # "" THEN [exc |-> c.exc, value |-> <<>>]
             ELSE IF c.counts = <<>> THEN [exc |-> "", value |-> Unknown]
             ELSE IF MaxKey(c.counts, 1, 1).kind # "str"
                  THEN [exc |-> "TypeError", value |-> <<>>]
             ELSE [exc |-> "",
                   value |-> KeyLabel(MaxKey(c.counts, 1, 1).chord)]

\* an except clause that logs and raises again
Reraises(body) == body

\* lines 137-139
KeyExceptClause(body) ==
    IF body.exc # "" THEN [exc |-> "", value |-> Unknown] ELSE body

detect_key(chords_data) == KeyExceptClause(DetectKeyBody(chords_data))

\* chord symbols: those _classify_chord_quality builds (which include the
\* names of the regular templates) and the six Bb names of the library
ChordSymbols ==
    {pitch_names[r + 1] \o Suffix(chord_templates[q].quality) :
        r \in PitchClasses, q \in 1..Len(chord_templates)}
    \cup {<<"B", "b">>, <<"B", "b", "7">>, <<"B", "b", "9">>,
          <<"B", "b", "6">>, <<"B", "b", "6", "/", "A", "b">>,
          <<"B", "b", "7", "#", "1", "1">>}

\* entries of the longer lists: a few symbols, an entry without a chord, a
\* chord that is a number and an entry that is not a dictionary
ListEntries ==
    {[kind |-> "str", chord |-> c] :
        c \in {<<>>, <<"B", "b", "7", "#", "1", "1">>, <<"B", "b">>,
               <<"A", "m">>, <<"C", "m", "a", "j", "7">>, <<"C", "d", "i", "m">>}}
    \cup {[kind |-> "int", chord |-> <<"5">>], [kind |-> "object", chord |-> <<>>]}

ChordLists ==
    {<<[kind |-> "str", chord |-> c]>> : c \in ChordSymbols}
    \cup UNION {[1..n -> ListEntries] : n \in 0..MaxChords}

InitKey ==
    /\ templates = <<>>
    /\ pc = "detect_key"
    /\ chord_name = ""
    /\ chroma_vector = ZeroChroma
    /\ threshold = DefaultThreshold
    /\ match = NoMatch
    /\ chroma_harmonic = <<>>
    /\ min_duration = 0
    /\ segments = <<>>
    /\ events = <<>>
    /\ raised = FALSE
    /\ args \in ChordLists
    /\ result = [exc |-> "", value |-> <<>>]

DetectKey ==
    /\ pc = "detect_key"
    /\ result' = detect_key(args)
    /\ pc' = "returned"
    /\ UNCHANGED <<templates, chord_name, chroma_vector, threshold, match,
                   chroma_harmonic, min_duration, segments, events, raised,
                   args>>

NextKey == DetectKey

SpecKey == InitKey /\ [][NextKey]_vars

(***************************************************************************)
(* ChordAnalyzer.match_chord_template (src/main.py): correlation only      *)
(***************************************************************************)
\* ChordAnalyzer.chord_templates, in insertion order
ChordAnalyzerTemplates == <<
    [name |-> "Bb7#11", pattern |-> <<1, 0, 0, 1, 0, 1, 1, 0, 0, 0, 1, 0>>],
    [name |-> "Bb7",    pattern |-> <<1, 0, 0, 1, 0, 0, 1, 0, 0, 0, 1, 0>>],
    [name |-> "Bb",     pattern |-> <<1, 0, 0, 1, 0, 0, 1, 0, 0, 0, 0, 0>>],
    [name |-> "Bb9",    pattern |-> <<1, 0, 0, 1, 0, 0, 1, 0, 0, 0, 1, 1>>],
    [name |-> "C",      pattern |-> <<1, 0, 0, 0, 1, 0, 0, 1, 0, 0, 0, 0>>],
    [name |-> "Am",     pattern |-> <<1, 0, 0, 0, 1, 0, 0, 0, 0, 1, 0, 0>>],
    [name |-> "F",      pattern |-> <<1, 0, 0, 0, 0, 1, 0, 0, 0, 1, 0, 0>>],
    [name |-> "G",      pattern |-> <<0, 0, 1, 0, 0, 0, 0, 1, 0, 0, 0, 1>>]
>>

\* lines 130-131: best_chord = "Unknown" (index 0), best_score = 0.0
InitialBest(scores) == [i |-> 0, score |-> [n |-> 0, d |-> 1]]

\* the loop of lines 133-142 from the i-th template on: the index of
\* best_chord; a nan correlation never replaces the best
RECURSIVE TemplateLoop(_, _, _)
TemplateLoop(scores, i, best) ==
    IF i > Len(scores) THEN best.i
    ELSE TemplateLoop(scores, i + 1,
            IF ScoreGreater(scores[i], best.score)
            THEN [i |-> i, score |-> scores[i]] ELSE best)

\* match_chord_template with the library lib; the score in units of 1/SCALE
match_chord_template(lib, chroma) ==
    CHOOSE r \in
        {IF b = 0 THEN [chord |-> "Unknown", score |-> 0]
         ELSE [chord |-> lib[b].name,
               score |-> IF correlation(chroma, lib[b].pattern) > 0
                         THEN correlation(chroma, lib[b].pattern) ELSE 0] :
            b \in {TemplateLoop(sc, 1, InitialBest(sc)) :
                     sc \in {[i \in 1..Len(lib) |->
                                QualityScore(chroma, lib[i].pattern)]}}} :
        TRUE

InitTemplate ==
    /\ templates = ChordAnalyzerTemplates
    /\ pc = "call_template"
    /\ chord_name = ""
    /\ chroma_vector \in ChromaInputs
    /\ threshold = 0
    /\ match = NoMatch
    /\ chroma_harmonic = <<>>
    /\ min_duration = 0
    /\ segments = <<>>
    /\ events = <<>>
    /\ raised = FALSE
    /\ args = <<>>
    /\ result = <<>>

MatchChordTemplate ==
    /\ pc = "call_template"
    /\ match' = match_chord_template(templates, chroma_vector)
    /\ pc' = "done"
    /\ UNCHANGED <<templates, chord_name, chroma_vector, threshold,
                   chroma_harmonic, min_duration, segments, events, raised,
                   args, result>>

NextTemplate == MatchChordTemplate

SpecTemplate == InitTemplate /\ [][NextTemplate]_vars

(***************************************************************************)
(* AudioUtils.segment_audio_by_time (models/audio/processing.py).  Times   *)
(* are in tenths of a second; an optional time is <<>> for None and <<t>>  *)
(* for the value t.  The audio is represented by its number of samples.    *)
(***************************************************************************)
\* the longest time of a generated call, in tenths of a second
MaxTenths == 20

\* int(x) of x = num / den: truncation toward zero
IntDiv(num, den) == IF num < 0 THEN 0 - ((0 - num) \div den) ELSE num \div den

\* bounds of the slice a[i:j] of an array of n elements
SliceBounds(n, i, j) ==
    LET clip(k) == IF k < 0 THEN (IF n + k < 0 THEN 0 ELSE n + k)
                   ELSE IF k > n THEN n ELSE k
    IN  [start |-> clip(i),
         end |-> IF clip(j) < clip(i) THEN clip(i) ELSE clip(j)]

\* segment_audio_by_time: the exception raised, or the samples returned as
\* the bounds of audio_data[start_sample:end_sample]
segment_audio_by_time(n_samples, start_time, end_time, sr) ==
    LET start_sample == IntDiv(start_time * sr, 10)
        requested == IF end_time # <<>> /\ end_time[1] # 0
                     THEN IntDiv(end_time[1] * sr, 10) ELSE n_samples
        end_sample == IF requested < n_samples THEN requested ELSE n_samples
    IN  IF start_time * sr >= n_samples * 10
        THEN [exc |-> "ValueError", start |-> 0, end |-> 0]
        ELSE IF start_sample >= end_sample
        THEN [exc |-> "ValueError", start |-> 0, end |-> 0]
        ELSE [exc |-> ""] @@ SliceBounds(n_samples, start_sample, end_sample)

\* the calls: audio of 0 to 1.5 seconds, a start time and an optional end time
SegmentCalls ==
    {[n_samples |-> (k * sample_rate) \div 2, start_time |-> st, end_time |-> et,
      sr |-> sample_rate] :
        k \in 0..3, st \in (0 - 2)..MaxTenths,
        et \in {<<>>} \cup {<<t>> : t \in (0 - 2)..MaxTenths}}

InitSegmentAudio ==
    /\ templates = <<>>
    /\ pc = "segment_audio"
    /\ chord_name = ""
    /\ chroma_vector = ZeroChroma
    /\ threshold = DefaultThreshold
    /\ match = NoMatch
    /\ chroma_harmonic = <<>>
    /\ min_duration = 0
    /\ segments = <<>>
    /\ events = <<>>
    /\ raised = FALSE
    /\ args \in SegmentCalls
    /\ result = [exc |-> "", start |-> 0, end |-> 0]

SegmentAudioByTime ==
    /\ pc = "segment_audio"
    /\ result' = segment_audio_by_time(args.n_samples, args.start_time,
                                       args.end_time, args.sr)
    /\ pc' = "returned"
    /\ UNCHANGED <<templates, chord_name, chroma_vector, threshold, match,
                   chroma_harmonic, min_duration, segments, events, raised,
                   args>>

NextSegmentAudio == SegmentAudioByTime

SpecSegmentAudio == InitSegmentAudio /\ [][NextSegmentAudio]_vars

(***************************************************************************)
(* _classify_chord_quality called on one chroma vector, as the tests do    *)
(***************************************************************************)
\* chroma values on both sides of the extension threshold 0.3
ExtensionLevels == {0, (3 * One) \div 10, (3 * One) \div 10 + 1, One}

\* the Bb7#11 pattern of the tests
Bb7Sharp11Pattern == <<1, 0, 0, 1, 0, 1, 1, 0, 0, 0, 1, 0>>

\* an interval pattern moved to root r: entry (i + r) mod 12 is pattern's i
Transposed(pattern, r) == [i \in 1..12 |-> pattern[((i - 1 - r + 12) % 12) + 1]]

\* the calls: a quality pattern or the Bb7#11 pattern at full level, with
\* the second, fourth and sixth above the root at a level of their own
\* where the pattern is silent, moved to root r and classified with r
ClassifyCalls ==
    {[chroma |-> Transposed(
                    [i \in 1..12 |->
                        IF pattern[i] = 1 THEN One
                        ELSE IF i = 3 THEN ext[1]
                        ELSE IF i = 6 THEN ext[2]
                        ELSE IF i = 10 THEN ext[3]
                        ELSE 0], r),
      root_idx |-> r] :
        pattern \in {chord_templates[q].template : q \in 1..Len(chord_templates)}
                        \cup {Bb7Sharp11Pattern},
        r \in PitchClasses,
        ext \in ExtensionLevels \X ExtensionLevels \X ExtensionLevels}

InitClassify ==
    /\ templates = <<>>
    /\ pc = "classify"
    /\ chord_name = ""
    /\ chroma_vector = ZeroChroma
    /\ threshold = DefaultThreshold
    /\ match = NoMatch
    /\ chroma_harmonic = <<>>
    /\ min_duration = 0
    /\ segments = <<>>
    /\ events = <<>>
    /\ raised = FALSE
    /\ args \in ClassifyCalls
    /\ result = [symbol |-> <<>>, quality |-> "", extensions |-> <<>>]

ClassifyChordQuality ==
    /\ pc = "classify"
    /\ result' = _classify_chord_quality(args.chroma, 1, args.root_idx)
    /\ pc' = "classified"
    /\ UNCHANGED <<templates, chord_name, chroma_vector, threshold, match,
                   chroma_harmonic, min_duration, segments, events, raised,
                   args>>

NextClassify == ClassifyChordQuality

SpecClassify == InitClassify /\ [][NextClassify]_vars

(***************************************************************************)
(* Sequences of calls on the ChordTemplates class                          *)
(***************************************************************************)
\* most calls in a generated sequence of calls
MaxCalls == 3

\* chroma vectors matched in a sequence of calls
CallChromas ==
    {ZeroChroma, AsChroma(PatternOf("C")), AsChroma(Bb7Sharp11Pattern)}

InitLibrary ==
    /\ templates = TEMPLATES
    /\ pc = "idle"
    /\ chord_name = ""
    /\ chroma_vector = ZeroChroma
    /\ threshold = DefaultThreshold
    /\ match = NoMatch
    /\ chroma_harmonic = <<>>
    /\ min_duration = 0
    /\ segments = <<>>
    /\ events = <<>>
    /\ raised = FALSE
    /\ args = [calls |-> 0]
    /\ result = [exc |-> "", value |-> <<>>]

\* one call of get_template: lines 108-110 read cls.TEMPLATES only
CallGetTemplate ==
    /\ args.calls < MaxCalls
    /\ \E name \in LookupNames :
          /\ chord_name' = name
          /\ result' = IF get_template(name) = <<"KeyError">>
                       THEN [exc |-> "KeyError", value |-> <<>>]
                       ELSE [exc |-> "", value |-> get_template(name)]
    /\ pc' = "get_template"
    /\ args' = [calls |-> args.calls + 1]
    /\ UNCHANGED <<templates, chroma_vector, threshold, match,
                   chroma_harmonic, min_duration, segments, events, raised>>

\* one call of get_all_chord_names: line 120 builds a new list of the keys
CallGetAllChordNames ==
    /\ args.calls < MaxCalls
    /\ result' = [exc |-> "", value |-> get_all_chord_names]
    /\ pc' = "get_all_chord_names"
    /\ args' = [calls |-> args.calls + 1]
    /\ UNCHANGED <<templates, chord_name, chroma_vector, threshold, match,
                   chroma_harmonic, min_duration, segments, events, raised>>

\* one call of match_chord: lines 139-172 iterate over cls.TEMPLATES.items()
CallMatchChord ==
    /\ args.calls < MaxCalls
    /\ \E chroma \in CallChromas :
          /\ chroma_vector' = chroma
          /\ match' = match_chord(chroma, threshold)
    /\ pc' = "match_chord"
    /\ args' = [calls |-> args.calls + 1]
    /\ UNCHANGED <<templates, chord_name, threshold,
                   chroma_harmonic, min_duration, segments, events, raised,
                   result>>

NextLibrary == CallGetTemplate \/ CallGetAllChordNames \/ CallMatchChord

SpecLibrary == InitLibrary /\ [][NextLibrary]_vars

(***************************************************************************)
(* ConfidenceUtils (models/audio/confidence.py)                            *)
(***************************************************************************)
\* correlations are given in units of 1/Steps
Steps == 20

\* the correlations of the generated calls: nan and -2.0 to 2.0
Correlations ==
    {[nan |-> TRUE, r |-> 0]}
    \cup {[nan |-> FALSE, r |-> r] : r \in (0 - 2 * Steps)..(2 * Steps)}

\* (correlation + 1) / 2 without the clamp, in units of 1/(2 * Steps)
Unclamped(r_value) ==
    IF r_value.nan THEN 0 ELSE r_value.r + Steps

\* calculate_correlation_confidence, in units of 1/(2 * Steps)
calculate_correlation_confidence(r_value) ==
    IF r_value.nan THEN 0
    ELSE LET confidence == r_value.r + Steps
             upper == IF confidence > 2 * Steps THEN 2 * Steps ELSE confidence
         IN  IF upper < 0 THEN 0 ELSE upper

\* most values in a generated top_values
MaxValues == 4

\* the generated top_values: non-empty sequences of chroma values
TopValues ==
    UNION {[1..n -> {0, Lo, One \div 2, One}] : n \in 1..MaxValues}

\* np.max, np.sum and the variance numerator n * sum(x^2) - sum(x)^2
MaxSeq(x) == x[CHOOSE i \in 1..Len(x) : \A j \in 1..Len(x) : x[j] <= x[i]]

\* line 26: clarity, in units of 1/SCALE; 1e-6 only keeps 0/0 at 0
clarity(top_values) ==
    IF SumSeq(top_values, 1) = 0 THEN 0
    ELSE (SCALE * MaxSeq(top_values)) \div SumSeq(top_values, 1)

\* line 29: distinctness, in units of 1/SCALE; 1e-6 only keeps 0/0 at 0
distinctness(top_values) ==
    LET k == Len(top_values)
        s == SumSeq(top_values, 1)
        v == k * SumSeq([i \in 1..k |-> top_values[i] * top_values[i]], 1) - s * s
    IN  IF v = 0 THEN 0
        ELSE CHOOSE q \in {((k * MaxSeq(top_values) - s) * f * SCALE)
                               \div ISqrt(v * f * f) : f \in {Widen(v, 1)}} : TRUE

\* the mean of clarity and distinctness without the bound of line 32
MeanOfMetrics(top_values) ==
    (clarity(top_values) + distinctness(top_values)) \div 2

\* calculate_chord_confidence, in units of 1/SCALE (features is not read)
calculate_chord_confidence(top_values) ==
    IF clarity(top_values) + distinctness(top_values) >= 2 * SCALE THEN SCALE
    ELSE (clarity(top_values) + distinctness(top_values)) \div 2

InitConfidence ==
    /\ templates = <<>>
    /\ chord_name = ""
    /\ chroma_vector = ZeroChroma
    /\ threshold = DefaultThreshold
    /\ match = NoMatch
    /\ chroma_harmonic = <<>>
    /\ min_duration = 0
    /\ segments = <<>>
    /\ events = <<>>
    /\ raised = FALSE
    /\ result = 0
    /\ \/ pc = "correlation" /\ args \in Correlations
       \/ pc = "chord" /\ args \in TopValues

CalculateCorrelationConfidence ==
    /\ pc = "correlation"
    /\ result' = calculate_correlation_confidence(args)
    /\ pc' = "correlation_confidence"
    /\ UNCHANGED <<templates, chord_name, chroma_vector, threshold, match,
                   chroma_harmonic, min_duration, segments, events, raised,
                   args>>

CalculateChordConfidence ==
    /\ pc = "chord"
    /\ result' = calculate_chord_confidence(args)
    /\ pc' = "chord_confidence"
    /\ UNCHANGED <<templates, chord_name, chroma_vector, threshold, match,
                   chroma_harmonic, min_duration, segments, events, raised,
                   args>>

NextConfidence == CalculateCorrelationConfidence \/ CalculateChordConfidence

SpecConfidence == InitConfidence /\ [][NextConfidence]_vars

(***************************************************************************)
(* DeepLearningChordModel (models/deep_learning_chord_model.py).  The      *)
(* object is the record args; events is the list of the calls made on it.  *)
(***************************************************************************)
\* most calls made on one model object
MaxModelCalls == 3

\* _load_model: every branch assigns None to self.model
_load_model(self) == [self EXCEPT !.model = "None"]

\* __init__, lines 29-32
DeepLearningChordModel(model_path) ==
    _load_model([model_path |-> model_path, model |-> "None"])

\* an analysis that falls back on the template matcher when no model is loaded
FallsBackOnTemplates(self, features) ==
    [exc |-> "", chord |-> match_chord(features, DefaultThreshold).chord,
     confidence |-> match_chord(features, DefaultThreshold).score]

\* analyze_features, lines 75-88
analyze_features(self, features) ==
    IF self.model = "None"
    THEN [exc |-> "RuntimeError", chord |-> "", confidence |-> 0]
    ELSE [exc |-> "", chord |-> "Unknown", confidence |-> 0]

\* BaseChordModel.predict_chord_from_features
predict_chord_from_features(self, features) == analyze_features(self, features)

NoResult == [exc |-> "", chord |-> "", confidence |-> 0]

InitDeepLearning ==
    /\ templates = TEMPLATES
    /\ pc = "constructed"
    /\ chord_name = ""
    /\ chroma_vector = ZeroChroma
    /\ threshold = DefaultThreshold
    /\ match = NoMatch
    /\ chroma_harmonic = <<>>
    /\ min_duration = 0
    /\ segments = <<>>
    /\ events = <<>>
    /\ raised = FALSE
    /\ args \in {DeepLearningChordModel(path) : path \in {"", "model.pt"}}
    /\ result = NoResult

LoadModel ==
    /\ Len(events) < MaxModelCalls
    /\ args' = _load_model(args)
    /\ events' = Append(events, "_load_model")
    /\ pc' = "_load_model"
    /\ result' = NoResult
    /\ UNCHANGED <<templates, chord_name, chroma_vector, threshold, match,
                   chroma_harmonic, min_duration, segments, raised>>

\* train, lines 100-103: prints only
Train ==
    /\ Len(events) < MaxModelCalls
    /\ events' = Append(events, "train")
    /\ pc' = "train"
    /\ result' = NoResult
    /\ UNCHANGED <<templates, chord_name, chroma_vector, threshold, match,
                   chroma_harmonic, min_duration, segments, raised, args>>

\* save_model, lines 118-123: prints only
SaveModel ==
    /\ Len(events) < MaxModelCalls
    /\ events' = Append(events, "save_model")
    /\ pc' = "save_model"
    /\ result' = NoResult
    /\ UNCHANGED <<templates, chord_name, chroma_vector, threshold, match,
                   chroma_harmonic, min_duration, segments, raised, args>>

AnalyzeFeatures ==
    /\ Len(events) < MaxModelCalls
    /\ \E features \in CallChromas :
          /\ chroma_vector' = features
          /\ result' = analyze_features(args, features)
    /\ events' = Append(events, "analyze_features")
    /\ pc' = "analyze_features"
    /\ UNCHANGED <<templates, chord_name, threshold, match,
                   chroma_harmonic, min_duration, segments, raised, args>>

PredictChordFromFeatures ==
    /\ Len(events) < MaxModelCalls
    /\ \E features \in CallChromas :
          /\ chroma_vector' = features
          /\ result' = predict_chord_from_features(args, features)
    /\ events' = Append(events, "predict_chord_from_features")
    /\ pc' = "predict_chord_from_features"
    /\ UNCHANGED <<templates, chord_name, threshold, match,
                   chroma_harmonic, min_duration, segments, raised, args>>

NextDeepLearning ==
    \/ LoadModel
    \/ Train
    \/ SaveModel
    \/ AnalyzeFeatures
    \/ PredictChordFromFeatures

SpecDeepLearning == InitDeepLearning /\ [][NextDeepLearning]_vars

(***************************************************************************)
(* Calls made at the same time by several threads.  match_chord runs one   *)
(* template per step: it reads the library, which all threads share, and   *)
(* writes best_chord and best_score, which are local variables of the      *)
(* call.  The other calls read their own argument (and the fields          *)
(* sample_rate and hop_length, which nothing assigns after __init__) and   *)
(* take one step.                                                          *)
(***************************************************************************)
Threads == {1, 2}

\* the calls a thread can make, each with the value it returns when it runs
\* alone
MatchTasks ==
    {[op |-> "match_chord", input |-> chroma,
      alone |-> match_chord(chroma, DefaultThreshold)] :
        chroma \in {AsChroma(PatternOf("C")), AsChroma(Bb7Sharp11Pattern)}}

OtherTasks ==
    {[op |-> "get_template", input |-> "Am", alone |-> get_template("Am")],
     [op |-> "_segment_chord_regions", input |-> "C, Am",
      alone |-> _segment_chord_regions(
                    Frames(<< <<AsChroma(PatternOf("C")), 23>>,
                              <<AsChroma(PatternOf("Am")), 23>> >>),
                    DefaultMinDuration)],
     [op |-> "_classify_chord_quality", input |-> "Bb7#11",
      alone |-> _classify_chord_quality(AsChroma(Bb7Sharp11Pattern), 1, 0)],
     [op |-> "detect_key", input |-> "Am",
      alone |-> detect_key(<<[kind |-> "str", chord |-> <<"A", "m">>]>>)]}

\* the frame of a call: best_chord and best_score are locals (lines 136-137)
SharedSlot(t) == 1

Slot(t) == t

InitConcurrent ==
    /\ templates = TEMPLATES
    /\ pc = [t \in Threads |-> 0]
    /\ chord_name = ""
    /\ chroma_vector = ZeroChroma
    /\ threshold = DefaultThreshold
    /\ match = [t \in Threads |-> [chord |-> "Unknown", score |-> 0]]
    /\ chroma_harmonic = <<>>
    /\ min_duration = DefaultMinDuration
    /\ segments = <<>>
    /\ events = <<>>
    /\ raised = FALSE
    /\ \E first \in MatchTasks, second \in MatchTasks \cup OtherTasks :
          args = [t \in Threads |-> IF t = 1 THEN first ELSE second]
    /\ result = [t \in Threads |-> [done |-> FALSE, value |-> <<>>]]

\* lines 136-137
StartMatch(t) ==
    /\ args[t].op = "match_chord"
    /\ pc[t] = 0
    /\ match' = [match EXCEPT ![Slot(t)] = [chord |-> "Unknown", score |-> 0]]
    /\ pc' = [pc EXCEPT ![t] = 1]
    /\ UNCHANGED <<templates, chord_name, chroma_vector, threshold,
                   chroma_harmonic, min_duration, segments, events, raised,
                   args, result>>

\* lines 139-166 for the template at position pc[t]
CompareTemplate(t) ==
    /\ args[t].op = "match_chord"
    /\ pc[t] >= 1 /\ pc[t] <= Len(templates)
    /\ \E score \in {combined_score(args[t].input, templates[pc[t]].pattern)} :
          match' = IF Replaces(score, match[Slot(t)].score)
                   THEN [match EXCEPT ![Slot(t)] =
                            [chord |-> templates[pc[t]].name, score |-> score]]
                   ELSE match
    /\ pc' = [pc EXCEPT ![t] = pc[t] + 1]
    /\ UNCHANGED <<templates, chord_name, chroma_vector, threshold,
                   chroma_harmonic, min_duration, segments, events, raised,
                   args, result>>

\* lines 169-172
ReturnMatch(t) ==
    /\ args[t].op = "match_chord"
    /\ pc[t] = Len(templates) + 1
    /\ result' = [result EXCEPT ![t] =
                     [done |-> TRUE, value |-> Gate(match[Slot(t)], threshold)]]
    /\ pc' = [pc EXCEPT ![t] = pc[t] + 1]
    /\ UNCHANGED <<templates, chord_name, chroma_vector, threshold, match,
                   chroma_harmonic, min_duration, segments, events, raised,
                   args>>

\* a call that shares nothing but the library and the two fields it reads
CallAlongside(t) ==
    /\ args[t].op # "match_chord"
    /\ pc[t] = 0
    /\ result' = [result EXCEPT ![t] =
          [done |-> TRUE,
           value |->
              CASE args[t].op = "get_template" -> get_template(args[t].input)
                [] args[t].op = "_segment_chord_regions" ->
                     _segment_chord_regions(
                         Frames(<< <<AsChroma(PatternOf("C")), 23>>,
                                   <<AsChroma(PatternOf("Am")), 23>> >>),
                         min_duration)
                [] args[t].op = "_classify_chord_quality" ->
                     _classify_chord_quality(AsChroma(Bb7Sharp11Pattern), 1, 0)
                [] OTHER ->
                     detect_key(<<[kind |-> "str", chord |-> <<"A", "m">>]>>)]]
    /\ pc' = [pc EXCEPT ![t] = Len(templates) + 2]
    /\ UNCHANGED <<templates, chord_name, chroma_vector, threshold, match,
                   chroma_harmonic, min_duration, segments, events, raised,
                   args>>

NextConcurrent ==
    \E t \in Threads :
        \/ StartMatch(t)
        \/ CompareTemplate(t)
        \/ ReturnMatch(t)
        \/ CallAlongside(t)

SpecConcurrent == InitConcurrent /\ [][NextConcurrent]_vars

(***************************************************************************)
(* _classify_chord_quality on rotated chroma of any shape                  *)
(***************************************************************************)

\* the calls: every chroma whose pitch classes are silent or at full
\* level, classified with root 0 (the rotation by 0 leaves it as it is)
QualityCalls ==
    {[chroma |-> [i \in 1..12 |-> IF i \in sounding THEN One ELSE 0],
      root_idx |-> 0] : sounding \in SUBSET (1..12)}

InitQuality ==
    /\ templates = <<>>
    /\ pc = "classify"
    /\ chord_name = ""
    /\ chroma_vector = ZeroChroma
    /\ threshold = DefaultThreshold
    /\ match = NoMatch
    /\ chroma_harmonic = <<>>
    /\ min_duration = 0
    /\ segments = <<>>
    /\ events = <<>>
    /\ raised = FALSE
    /\ args \in QualityCalls
    /\ result = [symbol |-> <<>>, quality |-> "", extensions |-> <<>>]

SpecQuality == InitQuality /\ [][NextClassify]_vars

(***************************************************************************)
(* predict followed by ChordAnalysisService.detect_key on its events       *)
(***************************************************************************)

\* dict.get(key, default)
DictGet(dict, key, default) == IF key \in DOMAIN dict THEN dict[key] ELSE default

\* what the loop of detect_key reads from the events: line 115,
\* chord_data.get('chord', '')
ChordsOf(chords_data) ==
    [i \in 1..Len(chords_data) |->
        [kind |-> "str", chord |-> DictGet(chords_data[i], "chord", <<>>)]]

\* detect_key called with the list predict returned
DetectKeyOfEvents ==
    /\ pc = "returned"
    /\ result' = detect_key(ChordsOf(events))
    /\ pc' = "estimated"
    /\ UNCHANGED <<templates, chord_name, chroma_vector, threshold, match,
                   chroma_harmonic, min_duration, segments, events, raised,
                   args>>

NextEstimate ==
    \/ NextPredict
    \/ DetectKeyOfEvents

SpecEstimate == InitPredict /\ [][NextEstimate]_vars

(***************************************************************************)
(* POST /analyze/audio (api/routes.py): analyze_audio_file                 *)
(***************************************************************************)

\* str.lower() on the characters that occur in the file names
Lower(name) ==
    [i \in 1..Len(name) |->
        CASE name[i] = "A" -> "a" [] name[i] = "E" -> "e"
          [] name[i] = "G" -> "g" [] name[i] = "M" -> "m"
          [] name[i] = "N" -> "n" [] name[i] = "O" -> "o"
          [] name[i] = "P" -> "p" [] name[i] = "S" -> "s"
          [] name[i] = "V" -> "v" [] name[i] = "W" -> "w"
          [] OTHER -> name[i]]

\* str.endswith(suffix)
EndsWith(name, suffix) ==
    /\ Len(suffix) <= Len(name)
    /\ SubSeq(name, Len(name) - Len(suffix) + 1, Len(name)) = suffix

\* the tuple of line 45
AudioSuffixes ==
    {<<".", "w", "a", "v">>, <<".", "m", "p", "3">>, <<".", "m", "4", "a">>,
     <<".", "f", "l", "a", "c">>, <<".", "o", "g", "g">>}

\* line 45, negated: the file name is there, is not empty and ends in one
\* of the suffixes once lowered; filename is <<>> for None, <<name>> else
IsAudioFileName(filename) ==
    /\ filename # <<>>
    /\ filename[1] # <<>>
    /\ \E suffix \in AudioSuffixes : EndsWith(Lower(filename[1]), suffix)

\* file names of the uploads: none, the empty one and a few names
FileNames ==
    {<<>>, << <<>> >>,
     <<<<"s", "o", "n", "g", ".", "w", "a", "v">>>>,
     <<<<"S", "O", "N", "G", ".", "W", "A", "V">>>>,
     <<<<"S", "o", "n", "g", ".", "M", "p", "3">>>>,
     <<<<"a", ".", "m", "4", "a">>>>,
     <<<<"a", ".", "f", "l", "a", "c">>>>,
     <<<<"a", ".", "o", "g", "g">>>>,
     <<<<"a", ".", "t", "x", "t">>>>,
     <<<<"a", ".", "w", "a", "v", ".", "t", "x", "t">>>>,
     <<<<"w", "a", "v">>>>,
     <<<<"a", ".", "m", "p", "4">>>>,
     <<<<".", "o", "g", "g">>>>,
     <<<<"a", ".", "W", "A", "V", "E">>>>}

ModelTypes == {"chroma", "deep_learning", "lstm"}

\* the request before the handler runs; result is what the handler did:
\* the exception in flight (0 for none, else its status code, 1 for an
\* exception that is not an HTTPException), the temporary files created
\* and still there, whether the analysis ran and the status answered
InitUpload ==
    /\ templates = <<>>
    /\ pc = "validate"
    /\ chord_name = ""
    /\ chroma_vector = ZeroChroma
    /\ threshold = DefaultThreshold
    /\ match = NoMatch
    /\ chroma_harmonic = <<>>
    /\ min_duration = 0
    /\ segments = <<>>
    /\ events = <<>>
    /\ raised = FALSE
    /\ args \in [filename : FileNames, model_type : ModelTypes]
    /\ result = [exception |-> 0, created |-> 0, existing |-> 0,
                 analysed |-> FALSE, status |-> 0]

\* lines 42-47: the check of the file name, inside the try of line 41
ValidateFileType ==
    /\ pc = "validate"
    /\ IF IsAudioFileName(args.filename)
       THEN pc' = "save" /\ result' = result
       ELSE pc' = "except" /\ result' = [result EXCEPT !.exception = 400]
    /\ UNCHANGED <<templates, chord_name, chroma_vector, threshold, match,
                   chroma_harmonic, min_duration, segments, events, raised,
                   args>>

\* lines 49-53: the upload is written to a temporary file that stays
SaveUpload ==
    /\ pc = "save"
    /\ result' = [result EXCEPT !.created = @ + 1, !.existing = @ + 1]
    /\ pc' = "analyze"
    /\ UNCHANGED <<templates, chord_name, chroma_vector, threshold, match,
                   chroma_harmonic, min_duration, segments, events, raised,
                   args>>

\* lines 55-68: the service is built for the model type (ModelFactory
\* raises on a type it does not know) and analyses the file, which
\* succeeds or raises
AnalyzeUpload ==
    /\ pc = "analyze"
    /\ \/ /\ args.model_type \in {"chroma", "deep_learning"}
          /\ \E failed \in BOOLEAN :
                result' = [result EXCEPT !.analysed = TRUE,
                                         !.exception = IF failed THEN 1 ELSE 0]
       \/ /\ args.model_type \notin {"chroma", "deep_learning"}
          /\ result' = [result EXCEPT !.exception = 1]
    /\ pc' = "finally"
    /\ UNCHANGED <<templates, chord_name, chroma_vector, threshold, match,
                   chroma_harmonic, min_duration, segments, events, raised,
                   args>>

\* lines 70-73: the temporary file is removed, then the return of line 61
\* or the exception goes on
FinallyClause ==
    /\ pc = "finally"
    /\ IF result.exception = 0
       THEN /\ result' = [result EXCEPT !.existing = 0, !.status = 200]
            /\ pc' = "responded"
       ELSE /\ result' = [result EXCEPT !.existing = 0]
            /\ pc' = "except"
    /\ UNCHANGED <<templates, chord_name, chroma_vector, threshold, match,
                   chroma_harmonic, min_duration, segments, events, raised,
                   args>>

\* lines 75-77: except Exception catches every exception of the try block,
\* an HTTPException (a subclass of Exception) included, and raises
\* HTTPException(status_code=500)
RouteExceptClause ==
    /\ pc = "except"
    /\ result' = [result EXCEPT !.status = 500,
                                !.exception = 0]
    /\ pc' = "responded"
    /\ UNCHANGED <<templates, chord_name, chroma_vector, threshold, match,
                   chroma_harmonic, min_duration, segments, events, raised,
                   args>>

NextUpload ==
    \/ ValidateFileType
    \/ SaveUpload
    \/ AnalyzeUpload
    \/ FinallyClause
    \/ RouteExceptClause

SpecUpload == InitUpload /\ [][NextUpload]_vars

(***************************************************************************)
(* Properties of the template library and of match_chord (SpecMatch)       *)
(***************************************************************************)
\* C1: match_chord on the exact pattern [1,0,0,1,0,1,1,0,0,0,1,0] with the
\* default threshold returns 'Bb7#11' with a score equal to 1.0.
C1_Bb7Sharp11ScoresOne ==
    (/\ pc = "done"
     /\ chroma_vector = AsChroma(<<1, 0, 0, 1, 0, 1, 1, 0, 0, 0, 1, 0>>)
     /\ threshold = DefaultThreshold)
        => (match.chord = "Bb7#11" /\ match.score = SCALE)

\* C2: the score returned by match_chord lies in [0, 1] for every
\* non-negative chroma vector and every threshold.
C2_ScoreInUnitInterval ==
    pc = "done" => (match.score >= 0 /\ match.score <= SCALE)

\* C5: for each pitch class r the library holds a major, minor, dominant-7th,
\* major-7th and minor-7th template rooted on r whose 1-flags are exactly
\* the chord tones {r,r+4,r+7}, {r,r+3,r+7}, {r,r+4,r+7,r+10},
\* {r,r+4,r+7,r+11} and {r,r+3,r+7,r+10} modulo 12.
C5_TemplatesHoldChordTones ==
    LET names == [
            major |-> <<"C", "C#", "D", "D#", "E", "F",
                        "F#", "G", "G#", "A", "A#", "B">>,
            minor |-> <<"Cm", "C#m", "Dm", "D#m", "Em", "Fm",
                        "F#m", "Gm", "G#m", "Am", "A#m", "Bm">>,
            dominant7 |-> <<"C7", "C#7", "D7", "D#7", "E7", "F7",
                            "F#7", "G7", "G#7", "A7", "A#7", "B7">>,
            major7 |-> <<"Cmaj7", "C#maj7", "Dmaj7", "D#maj7", "Emaj7", "Fmaj7",
                         "F#maj7", "Gmaj7", "G#maj7", "Amaj7", "A#maj7", "Bmaj7">>,
            minor7 |-> <<"Cm7", "C#m7", "Dm7", "D#m7", "Em7", "Fm7",
                         "F#m7", "Gm7", "G#m7", "Am7", "A#m7", "Bm7">>]
        tones == [major |-> {0, 4, 7}, minor |-> {0, 3, 7},
                  dominant7 |-> {0, 4, 7, 10}, major7 |-> {0, 4, 7, 11},
                  minor7 |-> {0, 3, 7, 10}]
    IN  \A q \in DOMAIN names : \A r \in PitchClasses :
            /\ get_template(names[q][r + 1]) # <<"KeyError">>
            /\ {p \in PitchClasses : get_template(names[q][r + 1])[p + 1] = 1}
                   = {(r + k) % 12 : k \in tones[q]}

\* C6: for every name n of the library, match_chord(get_template(n)) with
\* the default threshold returns n.
C6_TemplateMatchesItself ==
    (pc = "done" /\ chord_name # "" /\ threshold = DefaultThreshold)
        => match.chord = chord_name

C8_FirstInsertedWinsTies ==
    (pc = "done" /\ match.chord # "Unknown") =>
        \A sc \in {combined_scores(chroma_vector)} :
        \A i \in DOMAIN sc :
            ((\A j \in DOMAIN sc : sc[j] <= sc[i])
                /\ (\A j \in 1..(i - 1) : sc[j] < sc[i]))
            => match.chord = templates[i].name

\* reached: a named result for a vector on which two templates tie for the best
C8_TieForBest ==
    /\ pc = "done"
    /\ match.chord # "Unknown"
    /\ \E sc \in {combined_scores(chroma_vector)} :
       \E i, j \in DOMAIN sc :
           i < j /\ sc[i] = sc[j] /\ \A k \in DOMAIN sc : sc[k] <= sc[i]

(***************************************************************************)
(* Properties of segmentation and of the event builder (SpecPredict)       *)
(***************************************************************************)
\* predict has segmented chroma_harmonic
Segmented == ~raised /\ pc \in {"analyze", "return", "returned"}

\* k frames of the C-major pattern followed by k frames of the A-minor pattern
TwoBlocks(k) ==
    Frames(<< <<AsChroma(PatternOf("C")), k>>, <<AsChroma(PatternOf("Am")), k>> >>)

\* C3: 2k frames, k of the C-major pattern then k of the A-minor pattern
\* (k at least the minimum duration), are segmented into exactly (0,k) and
\* (k,2k).
C3_TwoBlocksSplitAtTransition ==
    \A k \in BlockLengths :
        (/\ Segmented
         /\ k * hop_length * 10 >= min_duration * sample_rate
         /\ chroma_harmonic = TwoBlocks(k))
            => segments = << <<0, k>>, <<k, 2 * k>> >>

\* C4: for the same two-block matrix the events are, in order, symbol 'C'
\* with quality 'major' and symbol 'Am' with quality 'minor'.
C4_TwoBlocksGiveCAndAm ==
    \A k \in BlockLengths :
        (/\ pc = "returned" /\ ~raised
         /\ k * hop_length * 10 >= min_duration * sample_rate
         /\ chroma_harmonic = TwoBlocks(k))
            => /\ Len(events) = 2
               /\ events[1].symbol = <<"C">> /\ events[1].quality = "major"
               /\ events[2].symbol = <<"A", "m">> /\ events[2].quality = "minor"

\* C9: the segments are in increasing order and do not overlap, lie within
\* 0 and the number of frames, and each spans at least the minimum number
\* of frames, hence is not empty.
C9_SegmentsOrderedAndLongEnough ==
    Segmented =>
        \A i \in 1..Len(segments) :
            /\ 0 <= segments[i][1]
            /\ segments[i][2] <= Len(chroma_harmonic)
            /\ (segments[i][2] - segments[i][1]) * hop_length * 10
                   >= min_duration * sample_rate
            /\ segments[i][1] < segments[i][2]
            /\ i > 1 => /\ segments[i - 1][2] <= segments[i][1]
                        /\ segments[i - 1][1] < segments[i][1]

\* reached: a matrix from which three segments are returned
C9_ThreeSegments == Segmented /\ Len(segments) = 3

\* C10: a matrix whose frames are all identical has no onset and yields the
\* single segment (0, frames) when frames is at least the minimum duration,
\* and no segment otherwise.
C10_ConstantChromaOneSegment ==
    (/\ Segmented
     /\ \A t \in 1..Len(chroma_harmonic) : chroma_harmonic[t] = chroma_harmonic[1])
        => /\ Onsets(chroma_diff(chroma_harmonic)) = <<>>
           /\ segments =
                IF Len(chroma_harmonic) * hop_length * 10 >= min_duration * sample_rate
                THEN << <<0, Len(chroma_harmonic)>> >>
                ELSE <<>>

\* reached: a constant matrix of several frames returned as one segment
C10_ConstantSegmented ==
    /\ Segmented
    /\ Len(chroma_harmonic) > 1
    /\ \A t \in 1..Len(chroma_harmonic) : chroma_harmonic[t] = chroma_harmonic[1]
    /\ segments = << <<0, Len(chroma_harmonic)>> >>

\* C11: predict returns the fixed four-chord progression exactly when a step
\* raised, and the empty list when nothing raised and there is no segment;
\* every exception ends in the except clause, none leaves predict.
C11_FallbackIffRaised ==
    /\ pc = "returned" =>
          /\ (events = _get_mock_chord_progression) <=> raised
          /\ (~raised /\ segments = <<>>) => events = <<>>
    /\ raised => pc \in {"except", "returned"}

\* reached: a step raised and the fallback progression was returned
C11_FallbackReturned ==
    pc = "returned" /\ raised /\ events = _get_mock_chord_progression

\* the keys of chord_templates: the qualities an event can carry
Qualities == {chord_templates[i].quality : i \in 1..Len(chord_templates)}

\* C12: every event predict returns, computed or taken from the fallback
\* progression, has 0 <= start_time < end_time, a confidence in [0,1], one
\* of the seven qualities and extensions among '9', '11', '13'.
C12_EventsSatisfyDataModel ==
    pc = "returned" =>
        \A i \in 1..Len(events) :
            /\ 0 <= events[i].start_time
            /\ events[i].start_time < events[i].end_time
            /\ 0 <= events[i].confidence /\ events[i].confidence <= SCALE
            /\ events[i].quality \in Qualities
            /\ \A j \in 1..Len(events[i].extensions) :
                  events[i].extensions[j] \in {"9", "11", "13"}

\* C13: for a non-empty list of events with chord symbols, detect_key labels
\* the most frequent symbol (first seen on ties) '<root> Major' if it holds
\* 'maj' or '7', else '<root> Minor' if it holds 'm', else
\* '<symbol> (Unknown)', <root> being the root pitch-class name of the symbol.
C13_KeyLabelOfMostFrequent ==
    (/\ pc = "returned"
     /\ args # <<>>
     /\ \A i \in 1..Len(args) : args[i].kind = "str" /\ args[i].chord # <<>>)
        => \E w \in 1..Len(args) :
             LET n(i) == Cardinality({k \in 1..Len(args) : args[k] = args[i]})
                 sym == args[w].chord
                 \* the root name: a letter, then # or b if any
                 RootName(symbol) ==
                     IF Len(symbol) > 1 /\ symbol[2] \in {"#", "b"}
                     THEN SubSeq(symbol, 1, 2) ELSE SubSeq(symbol, 1, 1)
             IN  /\ \A i \in 1..Len(args) : n(i) <= n(w)
                 /\ \A i \in 1..(w - 1) : n(i) < n(w)
                 /\ result.exc = ""
                 /\ result.value =
                       IF Contains(sym, <<"m", "a", "j">>) \/ Contains(sym, <<"7">>)
                       THEN RootName(sym) \o <<" ", "M", "a", "j", "o", "r">>
                       ELSE IF Contains(sym, <<"m">>)
                       THEN RootName(sym) \o <<" ", "M", "i", "n", "o", "r">>
                       ELSE sym \o <<" ", "(", "U", "n", "k", "n", "o", "w", "n", ")">>

\* C14: detect_key never raises; it returns 'Unknown' for the empty list and
\* whenever counting or labelling fails.
C14_KeyNeverRaises ==
    pc = "returned" =>
        /\ result.exc = ""
        /\ args = <<>> => result.value = Unknown
        /\ DetectKeyBody(args).exc # "" => result.value = Unknown

\* reached: labelling failed on a chord that is not a string, and the
\* sentinel was returned
C14_FailureGivesUnknown ==
    /\ pc = "returned"
    /\ DetectKeyBody(args).exc = "TypeError"
    /\ result = [exc |-> "", value |-> Unknown]

\* C15: match_chord_template has no gate: for every chroma vector that has a
\* correlation (one that is not constant) it returns the name of a template
\* of greatest Pearson correlation, with the score max(0, that correlation),
\* which lies in [0,1].
C15_AlwaysNamesBestTemplate ==
    (/\ pc = "done"
     /\ \E i \in 1..12 : chroma_vector[i] # chroma_vector[1])
        => \E b \in 1..Len(templates) :
             /\ match.chord = templates[b].name
             /\ \A j \in 1..Len(templates) :
                   correlation(chroma_vector, templates[j].pattern)
                       <= correlation(chroma_vector, templates[b].pattern)
             /\ match.score >= 0 /\ match.score <= SCALE
             /\ match.score >= correlation(chroma_vector, templates[b].pattern)
             /\ match.score \in
                   {0, correlation(chroma_vector, templates[b].pattern)}

\* C16: segment_audio_by_time never corrects a time range: whenever it
\* returns samples the requested range lies inside the audio, 0 <= start,
\* start < end and end <= duration; every other request raises ValueError.
C16_OutOfRangeIsRejected ==
    (pc = "returned" /\ result.exc = "") =>
        /\ 0 <= args.start_time
        /\ args.start_time * args.sr < args.n_samples * 10
        /\ args.end_time # <<>> =>
              /\ args.start_time < args.end_time[1]
              /\ args.end_time[1] * args.sr <= args.n_samples * 10

\* C17: the extensions depend on the rotated chroma only: '9' is reported
\* iff rotated[2] > 0.3, '11' iff rotated[5] > 0.3, '13' iff rotated[9] > 0.3,
\* whatever the quality; rotated[2] alone above 0.3 gives exactly ['9'].
C17_ExtensionsFollowRotatedChroma ==
    pc = "classified" =>
        LET rotated == [i \in 0..11 |-> args.chroma[((i + args.root_idx) % 12) + 1]]
            has(e) == \E k \in 1..Len(result.extensions) : result.extensions[k] = e
        IN  /\ has("9") <=> 10 * rotated[2] > 3 * One
            /\ has("11") <=> 10 * rotated[5] > 3 * One
            /\ has("13") <=> 10 * rotated[9] > 3 * One
            /\ \A k \in 1..Len(result.extensions) :
                  result.extensions[k] \in {"9", "11", "13"}
            /\ (/\ 10 * rotated[2] > 3 * One
                /\ 10 * rotated[5] <= 3 * One
                /\ 10 * rotated[9] <= 3 * One) => result.extensions = <<"9">>

\* reached: the second above the root just above 0.3, the fourth exactly at
\* 0.3 or below, and exactly ['9'] reported for a chord that is not major
C17_NinthOnly ==
    /\ pc = "classified"
    /\ args.chroma[((2 + args.root_idx) % 12) + 1] = (3 * One) \div 10 + 1
    /\ args.chroma[((5 + args.root_idx) % 12) + 1] = (3 * One) \div 10
    /\ result.extensions = <<"9">>
    /\ result.quality # "major"

\* C18: for every root r and every one of the seven qualities q, the
\* interval pattern of q moved to root r and classified with root_idx = r
\* gives quality q and the symbol pitch_name[r] + suffix(q), the suffixes
\* being '' (major), 'm', '7', 'maj7', 'm7', 'dim' and 'aug'.
C18_PatternGivesItsQuality ==
    \A q \in 1..Len(chord_templates) :
        (/\ pc = "classified"
         /\ args.chroma = Transposed(AsChroma(chord_templates[q].template),
                                     args.root_idx))
            => /\ result.quality = chord_templates[q].quality
               /\ result.symbol =
                     <<<<"C">>, <<"C", "#">>, <<"D">>, <<"D", "#">>, <<"E">>,
                       <<"F">>, <<"F", "#">>, <<"G">>, <<"G", "#">>, <<"A">>,
                       <<"A", "#">>, <<"B">>>>[args.root_idx + 1]
                     \o <<<<>>, <<"m">>, <<"7">>, <<"m", "a", "j", "7">>,
                          <<"m", "7">>, <<"d", "i", "m">>, <<"a", "u", "g">>>>[q]

\* reached: the diminished pattern on B classified as 'Bdim'
C18_DiminishedOnB ==
    /\ pc = "classified"
    /\ args.root_idx = 11
    /\ args.chroma = Transposed(AsChroma(chord_templates[6].template), 11)
    /\ result.symbol = <<"B", "d", "i", "m">>
    /\ result.quality = "diminished"

\* C19: the Bb7#11 pattern classified with root index 0 gives a result with
\* the keys symbol, quality and extensions whose symbol contains 'Bb'.
C19_Bb7Sharp11SymbolHoldsBb ==
    (/\ pc = "classified"
     /\ args.root_idx = 0
     /\ args.chroma = AsChroma(Bb7Sharp11Pattern))
        => /\ DOMAIN result = {"symbol", "quality", "extensions"}
           /\ Contains(result.symbol, <<"B", "b">>)

\* C20: every pattern of the template library has exactly 12 entries, each
\* 0 or 1, and between 3 and 6 entries equal to 1.
C20_PatternsAreFlagsOfThreeToSix ==
    \A i \in 1..Len(templates) :
        /\ Len(templates[i].pattern) = 12
        /\ \A k \in 1..12 : templates[i].pattern[k] \in {0, 1}
        /\ Sum12(templates[i].pattern) >= 3
        /\ Sum12(templates[i].pattern) <= 6

\* C21: get_template is a pure lookup: after any sequence of get_template,
\* get_all_chord_names and match_chord calls it returns the 12-element
\* pattern the library was built with for a name of the library, the same
\* at every call, and raises KeyError for an absent name; the names, their
\* order and the patterns of the library never change.
C21_LookupIsPureAndLibraryReadOnly ==
    /\ templates = TEMPLATES
    /\ pc = "get_template" =>
          IF \E i \in 1..Len(TEMPLATES) : TEMPLATES[i].name = chord_name
          THEN /\ result.exc = ""
               /\ Len(result.value) = 12
               /\ \A i \in 1..Len(TEMPLATES) :
                     TEMPLATES[i].name = chord_name
                        => result.value = TEMPLATES[i].pattern
          ELSE result.exc = "KeyError"
    /\ pc = "get_all_chord_names" =>
          result.value = [i \in 1..Len(TEMPLATES) |-> TEMPLATES[i].name]

\* reached: a third call, a lookup of an absent name after other calls,
\* raised KeyError
C21_AbsentAfterCalls ==
    /\ pc = "get_template"
    /\ args.calls = MaxCalls
    /\ chord_name = "H"
    /\ result.exc = "KeyError"
    /\ match # NoMatch

\* C22: calculate_correlation_confidence returns 0.0 for NaN and
\* clamp((r + 1) / 2, 0, 1) for every other r: the result is in [0,1], is
\* non-decreasing in r, and 1.0 gives 1.0, 0.0 gives 0.5 and -1.0 gives 0.0.
C22_CorrelationConfidenceClamped ==
    pc = "correlation_confidence" =>
        /\ result >= 0 /\ result <= 2 * Steps
        /\ args.nan => result = 0
        /\ (~args.nan /\ args.r = Steps) => result = 2 * Steps
        /\ (~args.nan /\ args.r = 0) => result = Steps
        /\ (~args.nan /\ args.r = 0 - Steps) => result = 0
        /\ (~args.nan /\ args.r >= Steps) => result = 2 * Steps
        /\ (~args.nan /\ args.r <= 0 - Steps) => result = 0
        /\ (~args.nan /\ args.r > 0 - Steps /\ args.r < Steps)
              => result = args.r + Steps
        /\ \A c \in Correlations :
              (~args.nan /\ ~c.nan /\ c.r <= args.r)
                 => calculate_correlation_confidence(c) <= result

\* reached: a correlation above 1.0 mapped to the confidence 1.0
C22_ClampedAbove ==
    /\ pc = "correlation_confidence"
    /\ ~args.nan /\ args.r > Steps
    /\ result = 2 * Steps

\* C23: for a non-empty sequence of non-negative values the confidence is
\* min(1, (clarity + distinctness) / 2), clarity = max / sum, distinctness =
\* (max - mean) / stddev; it lies in [0,1], it is what
\* _calculate_confidence gives for the same values, and an all-equal
\* sequence has distinctness 0.
C23_ChordConfidenceInUnitInterval ==
    pc = "chord_confidence" =>
        LET k == Len(args)
            s == SumSeq(args, 1)
            mx == MaxSeq(args)
            v == k * SumSeq([i \in 1..k |-> args[i] * args[i]], 1) - s * s
            c == IF s = 0 THEN 0 ELSE (SCALE * mx) \div s
        IN  /\ result >= 0 /\ result <= SCALE
            /\ result = _calculate_confidence(Greatest(args, k))
            /\ (\A i \in 1..k : args[i] = args[1])
                  => distinctness(args) = 0 /\ result = c \div 2
            \* result < 1: 2 * result - clarity is (max - mean) / stddev,
            \* that is (k * max - s) / sqrt(v), to within 2 / SCALE
            /\ (result < SCALE /\ v > 0)
                  => /\ (2 * result - c - 2) * ISqrt(v) <= (k * mx - s) * SCALE
                     /\ (k * mx - s) * SCALE <= (2 * result - c + 2) * (ISqrt(v) + 1)
            /\ (result = SCALE)
                  => (k * mx - s) * SCALE >= (2 * SCALE - c - 2) * ISqrt(v)

\* reached: a mean of clarity and distinctness above 1 returned as 1.0
C23_BoundedAtOne ==
    /\ pc = "chord_confidence"
    /\ clarity(args) + distinctness(args) > 2 * SCALE
    /\ result = SCALE

\* C24: a DeepLearningChordModel, built with or without a model_path and
\* after any _load_model, train and save_model calls, never reports a chord
\* other than 'Unknown': analyze_features and predict_chord_from_features
\* raise RuntimeError or return 'Unknown' with confidence 0.0.
C24_DeepLearningNeverNamesAChord ==
    pc \in {"analyze_features", "predict_chord_from_features"} =>
        \/ result.exc = "RuntimeError"
        \/ result.exc = "" /\ result.chord = "Unknown" /\ result.confidence = 0

\* reached: a model built with a model_path, loaded again and trained,
\* asked for the chord of the C-major pattern
C24_AfterLoadAndTrain ==
    /\ pc = "predict_chord_from_features"
    /\ args.model_path = "model.pt"
    /\ events = <<"_load_model", "train", "predict_chord_from_features">>
    /\ chroma_vector = AsChroma(PatternOf("C"))
    /\ result.exc = "RuntimeError"

\* C25: calls run at the same time by several threads, each on its own
\* input, return exactly what they return when run alone, and the template
\* library is only read.
C25_ConcurrentCallsAsAlone ==
    /\ templates = TEMPLATES
    /\ \A t \in Threads : result[t].done => result[t].value = args[t].alone

\* reached: two match_chord calls on different chroma vectors whose loops
\* ran at the same time and
\* both finished
C25_BothMatchedInterleaved ==
    /\ \A t \in Threads : args[t].op = "match_chord" /\ result[t].done
    /\ args[1].input # args[2].input
    /\ result[1].value.chord # result[2].value.chord

\* C26 as stated: each emitted segment, the trailing one included, starts
\* where the previously emitted segment ended, and the first starts at
\* frame 0 (prev moves only when a segment is emitted).
C26_SegmentsStartAtPreviousEnd ==
    Segmented =>
        /\ segments # <<>> => segments[1][1] = 0
        /\ \A i \in 2..Len(segments) : segments[i][1] = segments[i - 1][2]

\* C26, amended: prev starts at 0 and is set to every onset, whether or not
\* a segment is emitted; the segments are exactly the stretches between
\* two consecutive boundaries (frame 0, the onsets in order, the number of
\* frames) that span at least the minimum number of frames, in order.
C26_SegmentsAreLongStretches ==
    Segmented =>
        LET bounds == <<0>> \o Onsets(chroma_diff(chroma_harmonic))
                          \o <<Len(chroma_harmonic)>>
            stretches == [j \in 1..(Len(bounds) - 1) |-> <<bounds[j], bounds[j + 1]>>]
            Long(p) == (p[2] - p[1]) * hop_length * 10 >= min_duration * sample_rate
        IN  segments = SelectSeq(stretches, Long)

\* reached: a second segment that starts after the end of the first one
C26_GapBetweenSegments ==
    /\ Segmented
    /\ Len(segments) = 2
    /\ segments[2][1] > segments[1][2]

\* C27: a stretch between two consecutive boundaries (frame 0 or an onset,
\* and the next onset) shorter than the minimum duration is dropped: none
\* of its frames belongs to an emitted segment, it is merged into neither
\* neighbour.
C27_ShortStretchesAreDropped ==
    Segmented =>
        LET bounds == <<0>> \o Onsets(chroma_diff(chroma_harmonic))
        IN  \A j \in 1..(Len(bounds) - 1) :
              (bounds[j + 1] - bounds[j]) * hop_length * 10
                    < min_duration * sample_rate
                 => \A f \in bounds[j]..(bounds[j + 1] - 1) :
                      \A i \in 1..Len(segments) :
                          ~(segments[i][1] <= f /\ f < segments[i][2])

\* reached: the stretch from frame 0 to the first onset was too short and
\* the only segment starts at that onset
C27_FirstStretchDropped ==
    /\ Segmented
    /\ Len(segments) = 1
    /\ segments[1][1] > 0
    /\ segments[1][2] = Len(chroma_harmonic)

\* C28: _classify_chord_quality returns the quality whose template has the
\* highest correlation with the rotated chroma (nan counting as 0), also
\* when no correlation is positive; among equal highest correlations the
\* first-declared quality is returned.
C28_ReturnsHighestCorrelation ==
    pc = "classified" =>
        LET scores == [i \in 1..Len(chord_templates) |->
                          QualityScore(Reduced(Roll(args.chroma, args.root_idx)),
                                       chord_templates[i].template)]
        IN  \E b \in 1..Len(chord_templates) :
              /\ result.quality = chord_templates[b].quality
              /\ \A j \in 1..Len(chord_templates) :
                    ~ScoreGreater(scores[j], scores[b])
              /\ \A j \in 1..(b - 1) : ScoreGreater(scores[b], scores[j])

\* C29: detect_key, given the non-empty list of events predict returned
\* (chord names stored under 'symbol'), counts those symbols and returns
\* the label of the most frequent one, not 'Unknown'.
C29_KeyOfPredictedEvents ==
    (pc = "estimated" /\ events # <<>>) =>
        /\ result.exc = ""
        /\ result.value # Unknown
        /\ \E i \in 1..Len(events) :
              /\ result.value = KeyLabel(events[i].symbol)
              /\ \A j \in 1..Len(events) :
                    Cardinality({k \in 1..Len(events) :
                                    events[k].symbol = events[j].symbol})
                      <= Cardinality({k \in 1..Len(events) :
                                         events[k].symbol = events[i].symbol})

\* C30: an upload without a file name, or with one that does not end in
\* .wav, .mp3, .m4a, .flac or .ogg, is answered with status 400, and no
\* temporary file is created and no analysis is run for it.
C30_BadFileNameAnswered400 ==
    (pc = "responded" /\ ~IsAudioFileName(args.filename)) =>
        /\ result.status = 400
        /\ result.created = 0
        /\ ~result.analysed

====
